---- MODULE Spec2Model ----
(***************************************************************************)
(* Repository ingestion pipeline of open-docs: getRepositoryData (clone,   *)
(* extraction walk, structure walk, cleanup), generateDoc and the per-file *)
(* generation route that streams the result.                               *)
(*                                                                         *)
(* Paths and patterns are sequences of one-character strings, so that      *)
(* String.includes, String.replace and path.extname are computed as the    *)
(* code computes them.                                                     *)
(***************************************************************************)
EXTENDS Integers, Sequences, FiniteSets, TLC

(* ------------------------------------------------------------------ *)
(* Bounds of the model                                                 *)
(* ------------------------------------------------------------------ *)

\* number of names mkdtemp can draw its random suffix from
NumTmpNames == 2

\* most text fragments one generation stream yields
MaxChunks == 2

\* most statements of a source file handed to the summarizer
MaxStatements == 2

(* ------------------------------------------------------------------ *)
(* String helpers                                                      *)
(* ------------------------------------------------------------------ *)

\* String.prototype.includes
Includes(s, sub) ==
    \E k \in 1..(Len(s) - Len(sub) + 1) : SubSeq(s, k, k + Len(sub) - 1) = sub

\* String.prototype.endsWith
EndsWith(s, suf) ==
    /\ Len(suf) <= Len(s)
    /\ SubSeq(s, Len(s) - Len(suf) + 1, Len(s)) = suf

\* String.prototype.replace(c, ""): removes the first occurrence of the character c
ReplaceFirst(s, c) ==
    IF \E k \in 1..Len(s) : s[k] = c
    THEN LET k == CHOOSE j \in 1..Len(s) : s[j] = c /\ \A h \in 1..(j - 1) : s[h] # c
         IN  SubSeq(s, 1, k - 1) \o SubSeq(s, k + 1, Len(s))
    ELSE s

\* index of the last occurrence of the character c in s, 0 when there is none
LastIndexOf(s, c) ==
    IF \E k \in 1..Len(s) : s[k] = c
    THEN CHOOSE k \in 1..Len(s) : s[k] = c /\ \A h \in (k + 1)..Len(s) : s[h] # c
    ELSE 0

\* the last component of a path
Basename(p) == SubSeq(p, LastIndexOf(p, "/") + 1, Len(p))

\* path.extname: from the last "." of the last component to its end; empty when
\* there is no "." or the only "." is the component's first character
Extname(p) ==
    LET b == Basename(p)
        d == LastIndexOf(b, ".")
    IN  IF d <= 1 THEN <<>> ELSE SubSeq(b, d, Len(b))

\* String.prototype.split("/")
RECURSIVE Segments(_)
Segments(p) ==
    LET k == LastIndexOf(p, "/")
    IN  IF k = 0 THEN <<p>> ELSE Append(Segments(SubSeq(p, 1, k - 1)), SubSeq(p, k + 1, Len(p)))

\* the directories above a path
Ancestors(p) == { SubSeq(p, 1, k - 1) : k \in { j \in 1..Len(p) : p[j] = "/" } }

(* ------------------------------------------------------------------ *)
(* Ignore / filter policy                                              *)
(* ------------------------------------------------------------------ *)

\* the lines of defaultIgnorePatterns, trimmed, without the empty ones
defaultIgnorePatterns ==
    << <<"u","i">>,
       <<"n","o","d","e","_","m","o","d","u","l","e","s","/">>,
       <<".","g","i","t">>,
       <<"d","i","s","t","/">>,
       <<"b","u","i","l","d","/">>,
       <<"c","o","v","e","r","a","g","e","/">>,
       <<".","l","o","g","$">>,
       <<".","e","n","v","$">>,
       <<".","l","o","c","k","$">>,
       <<".","m","d","$">>,
       <<".","m","i","n",".","j","s","$">>,
       <<"p","a","c","k","a","g","e","-","l","o","c","k",".","j","s","o","n">>,
       <<".","v","s","c","o","d","e">>,
       <<".","e","d","i","t","o","r","c","o","n","f","i","g">>,
       <<".","g","i","t","i","g","n","o","r","e">>,
       <<"l","i","c","e","n","s","e">>,
       <<"L","I","C","E","N","S","E">>,
       <<"t","s","c","o","n","f","i","g",".","j","s","o","n">>,
       <<".","d","o","c","k","e","r","i","g","n","o","r","e">>,
       <<"t","a","i","l","w","i","n","d",".","c","o","n","f","i","g",".","t","s">> >>

\* parseIgnorePatterns returns the list of pattern lines (the regular expression it
\* builds is discarded)
parseIgnorePatterns(patterns) == patterns

supportedExtensions ==
    { <<".","j","s">>, <<".","j","s","o","n">>, <<".","t","s">>, <<".","j","s","x">>,
      <<".","t","s","x">>, <<".","p","y">>, <<".","j","a","v","a">>, <<".","c","p","p">>,
      <<".","r","b">>, <<".","p","h","p">>, <<".","g","o">>, <<".","r","s">>,
      <<".","s","w","i","f","t">>, <<".","c","s">> }

isSupportedExtension(filename) == Extname(filename) \in supportedExtensions

\* the loop over the pattern list in walkTree's callback: it returns at the first
\* pattern the path includes, and at the first pattern whatever it is when the
\* extension is not supported
IgnoredByPatterns(fullPath, ignorePatterns) ==
    \E k \in 1..Len(ignorePatterns) :
        \/ Includes(fullPath, ReplaceFirst(ignorePatterns[k], "$"))
        \/ ~isSupportedExtension(fullPath)

\* the second test of walkTree's callback
IgnoredAsExample(fullPath) ==
    \/ Includes(fullPath, <<"e","x","a","m","p","l","e","s">>)
    \/ Includes(fullPath, <<"e","x","a","m","p","l","e">>)
    \/ Includes(fullPath, <<"t","e","s","t","s">>)
    \/ Includes(fullPath, <<"t","e","s","t">>)

\* a filter without the test for examples and tests
SkippedByPatternsOnly(fullPath) ==
    IgnoredByPatterns(fullPath, parseIgnorePatterns(defaultIgnorePatterns))

\* the callback returns before entry.type() is asked for
SkippedByFilter(fullPath) ==
    \/ IgnoredByPatterns(fullPath, parseIgnorePatterns(defaultIgnorePatterns))
    \/ IgnoredAsExample(fullPath)

\* fileTypePrefixes[ext], or the bare fence for an extension the table lacks
\* ("fence" stands for the three backquotes)
FenceLabel(filename) ==
    LET ext == Extname(filename)
    IN  CASE ext \in { <<".","t","s">>, <<".","t","s","x">> } -> "fence typescript"
          [] ext \in { <<".","j","s">>, <<".","j","s","x">> } -> "fence javascript"
          [] ext = <<".","j","a","v","a">> -> "fence java"
          [] ext = <<".","c">> -> "fence c"
          [] ext = <<".","c","p","p">> -> "fence c++"
          [] ext = <<".","c","s">> -> "fence csharp"
          [] ext = <<".","g","o">> -> "fence go"
          [] ext = <<".","p","y">> -> "fence python"
          [] ext = <<".","r","b">> -> "fence ruby"
          [] ext = <<".","s","h">> -> "fence bash"
          [] ext = <<".","m","d">> -> "fence markdown"
          [] ext = <<".","j","s","o","n">> -> "fence json"
          [] ext = <<".","y","a","m","l">> -> "fence yaml"
          [] ext = <<".","h","t","m","l">> -> "fence html"
          [] ext = <<".","c","s","s">> -> "fence css"
          [] ext = <<".","s","q","l">> -> "fence sql"
          [] OTHER -> "fence"

addMarkdownPrefix(filename) == <<FenceLabel(filename), "\n">>

addMarkdownSuffix(filename) == <<"\n", FenceLabel(filename)>>

(* ------------------------------------------------------------------ *)
(* Remote repositories: the committed tree a clone of each URL yields   *)
(* ------------------------------------------------------------------ *)

\* fileContents.size < 11 in walkTree's callback
SizeLimit == 11

\* a source file, a markdown file and a directory with one source file
TreeSmall ==
    (<<"a",".","t","s">> :> "blob")
    @@ (<<"m",".","m","d">> :> "blob")
    @@ (<<"s">> :> "tree")
    @@ (<<"s","/","b",".","j","s">> :> "blob")

\* a build directory, a python file and a submodule (an entry that is neither
\* blob nor tree)
TreeLib ==
    (<<"d","i","s","t">> :> "tree")
    @@ (<<"d","i","s","t","/","c",".","j","s">> :> "blob")
    @@ (<<"k",".","p","y">> :> "blob")
    @@ (<<"v">> :> "commit")

TreeOne ==
    (<<"w",".","t","s">> :> "blob")

TreeTwo ==
    (<<"y",".","g","o">> :> "blob")
    @@ (<<"z",".","m","d">> :> "blob")

\* one more eligible blob than the size test of walkTree lets in, all in the root
TreeFlat ==
    LET FlatNames == <<"a","b","c","d","e","f","g","h","j","k","l","m","n","o">>
    IN  [ p \in { <<FlatNames[k], ".", "t", "s">> : k \in 1..(SizeLimit + 1) } |-> "blob" ]

\* every exclusion rule of the filter policy next to files it lets through
TreePolicy ==
    (<<"a",".","t","s">> :> "blob")
    @@ (<<"s","r","c">> :> "tree")
    @@ (<<"s","r","c","/","b",".","p","y">> :> "blob")
    @@ (<<"p",".","j","s">> :> "tree")
    @@ (<<"p",".","j","s","/","q",".","g","o">> :> "blob")
    @@ (<<"n","o","d","e","_","m","o","d","u","l","e","s">> :> "tree")
    @@ (<<"n","o","d","e","_","m","o","d","u","l","e","s","/","x",".","j","s">> :> "blob")
    @@ (<<".","g","i","t">> :> "tree")
    @@ (<<".","g","i","t","/","h",".","j","s">> :> "blob")
    @@ (<<".","g","i","t","h","u","b">> :> "tree")
    @@ (<<".","g","i","t","h","u","b","/","w",".","j","s">> :> "blob")
    @@ (<<"d","i","s","t">> :> "tree")
    @@ (<<"d","i","s","t","/","c",".","j","s">> :> "blob")
    @@ (<<"b","u","i","l","d">> :> "tree")
    @@ (<<"b","u","i","l","d","/","d",".","j","s">> :> "blob")
    @@ (<<"c","o","v","e","r","a","g","e">> :> "tree")
    @@ (<<"c","o","v","e","r","a","g","e","/","e",".","j","s">> :> "blob")
    @@ (<<"e","x","a","m","p","l","e","s">> :> "tree")
    @@ (<<"e","x","a","m","p","l","e","s","/","f",".","t","s">> :> "blob")
    @@ (<<"e","x","a","m","p","l","e">> :> "tree")
    @@ (<<"e","x","a","m","p","l","e","/","g",".","t","s">> :> "blob")
    @@ (<<"t","e","s","t","s">> :> "tree")
    @@ (<<"t","e","s","t","s","/","h",".","t","s">> :> "blob")
    @@ (<<"t","e","s","t">> :> "tree")
    @@ (<<"t","e","s","t","/","j",".","t","s">> :> "blob")
    @@ (<<"l","a","t","e","s","t",".","t","s">> :> "blob")
    @@ (<<"g","u","i",".","t","s">> :> "blob")
    @@ (<<"m",".","m","d">> :> "blob")
    @@ (<<"x",".","m","i","n",".","j","s">> :> "blob")
    @@ (<<"p","a","c","k","a","g","e","-","l","o","c","k",".","j","s","o","n">> :> "blob")
    @@ (<<"t","s","c","o","n","f","i","g",".","j","s","o","n">> :> "blob")
    @@ (<<"r",".","c","s","s">> :> "blob")
    @@ (<<"M","a","k","e","f","i","l","e">> :> "blob")
    @@ (<<"v",".","r","s">> :> "commit")

\* two sibling directories, the first with a source file
TreeDirs ==
    (<<"d">> :> "tree")
    @@ (<<"d","/","a",".","t","s">> :> "blob")
    @@ (<<"e">> :> "tree")

\* "nofiles" is a commit with an empty tree; in "nohead" HEAD names no commit
Tree(u) ==
    CASE u = "small" -> TreeSmall
      [] u = "lib" -> TreeLib
      [] u = "one" -> TreeOne
      [] u = "two" -> TreeTwo
      [] u = "flat" -> TreeFlat
      [] u = "policy" -> TreePolicy
      [] u = "private" -> TreeOne
      [] u = "dirs" -> TreeDirs
      [] OTHER -> << >>

HeadResolves(u) == u # "nohead"

(* ------------------------------------------------------------------ *)
(* State                                                               *)
(* ------------------------------------------------------------------ *)

\* the invocations of getRepositoryData (one per request)
Inv == {1, 2}

VARIABLES
    url,            \* url[i]: the repository invocation i is asked for
    unreadable,     \* unreadable[i]: the blobs whose entry.content() rejects
    pc,             \* pc[i]: where invocation i of getRepositoryData stands
    dir,            \* dir[i]: the temporary directory mkdtemp gave it
    fs,             \* the temporary directories that exist, with the clone each holds
    fileContents,   \* fileContents[i]: the Map of extracted files, path -> FileContent
    wst,            \* wst[i][p]: where walkTree's callback for entry p stands
    structure,      \* structure[i]: the listing getRepositoryStructure has built so far
    sst,            \* sst[i][p]: where getRepositoryStructure's callback for p stands
    pending,        \* pending[i]: the completion of the try/catch, held while finally runs
    outcome,        \* outcome[i]: what the caller of getRepositoryData gets
    log,            \* log[i]: what console.error has been given
    rpc,            \* rpc[i]: where the route handler of request i stands
    data,           \* data[i]: the items written to the data stream
    notes,          \* notes[i]: the message annotations written to the data stream
    streams,        \* streams[i]: the Map generateDoc returns, path -> text stream
    summary,        \* summary[i][p]: what summarizing the content of p does
    unit,           \* unit[i][p]: what generateDoc put in the prompt for p
    call,           \* call[i]: the headers and the branch getRepositoryData i is called with
    walked,         \* walked[i]: the refs handed to walkTree and getRepositoryStructure
    env,            \* process.env: the four variables lib/ai/model.ts reads
    token,          \* token[i]: the accessToken of the body of request i
    aimodel,        \* what evaluating lib/ai/model.ts gave
    source,         \* the ts.SourceFile handed to parseTypeScriptApiAndStructure
    digest,         \* what parseTypeScriptApiAndStructure returned for it
    spc,            \* where the summarizing of source stands
    req,            \* what a request to one of the other pages and routes is given
    loc,            \* the variables its handler (or the page component) holds
    resp,           \* the response the handler gives
    hpc             \* where the handler stands

repoVars == <<url, unreadable, pc, dir, fs, fileContents, wst, structure, sst, pending, outcome,
              log, call, walked>>

reqVars == <<env, token, aimodel>>

sumVars == <<source, digest, spc>>

hVars == <<req, loc, resp, hpc>>

routeVars == <<rpc, data, notes, streams, summary, unit, env, token, aimodel, source, digest, spc,
               req, loc, resp, hpc>>

vars == <<url, unreadable, pc, dir, fs, fileContents, wst, structure, sst, pending,
          outcome, log, rpc, data, notes, streams, summary, unit, call, walked, env, token,
          aimodel, source, digest, spc, req, loc, resp, hpc>>

NoOutcome == [kind |-> "none", class |-> "", message |-> << >>]

\* return { fileContents, structure }
Returned == [kind |-> "return", class |-> "", message |-> << >>]

\* the catch block: throw new Error("Failed to get repository data: " + error.message)
Rethrown(message) ==
    [kind |-> "throw", class |-> "Error",
     message |-> <<"Failed to get repository data: ", message>>]

\* what clone rejects with when the remote cannot be fetched
CloneErrors == {"HTTP Error: 401 Unauthorized", "getaddrinfo ENOTFOUND"}

\* the names path.join(os.tmpdir(), "repo-clone-") + six random characters ranges over
TmpNames == { <<"repo-clone-", k>> : k \in 1..NumTmpNames }

\* a mkdtemp that may hand out the name of a directory that exists
MkdtempAnyName(existing) == TmpNames

\* mkdtemp creates a directory that did not exist
MkdtempChoices(existing) == TmpNames \ existing

DirThere(i) == dir[i] \in DOMAIN fs

\* the object store of the clone in dir[i] holds entry p
Readable(i, p) == DirThere(i) /\ p \in DOMAIN Tree(fs[dir[i]])

\* Map.prototype.set
MapSet(m, k, v) == [ q \in (DOMAIN m) \cup {k} |-> IF q = k THEN v ELSE m[q] ]

\* a catch block after which the finally block does not run
CatchWithoutFinally(i, message) ==
    /\ log' = [log EXCEPT ![i] = Append(@, "Error getting repository data:")]
    /\ pending' = [pending EXCEPT ![i] = Rethrown(message)]
    /\ pc' = [pc EXCEPT ![i] = "done"]

\* the control leaves the try block by an error: the catch block logs it and throws
\* the wrapping Error, and the finally block is entered
Catch(i, message) ==
    /\ log' = [log EXCEPT ![i] = Append(@, "Error getting repository data:")]
    /\ pending' = [pending EXCEPT ![i] = Rethrown(message)]
    /\ pc' = [pc EXCEPT ![i] = "finally"]

(* ------------------------------------------------------------------ *)
(* lib/ai/model.ts: the module that builds AIModel                     *)
(* ------------------------------------------------------------------ *)

\* a variable of process.env is undefined, the empty string or a value
Undefined == "undefined"

EnvValues == {Undefined, "", "value"}

EnvNames == {"OLLAMA_BASE_URL", "OLLAMA_MODEL", "GOOGLE_API_KEY", "GOOGLE_MODEL"}

\* the truthiness of process.env.X
Truthy(v) == v # Undefined /\ v # ""

\* if (process.env.OLLAMA_BASE_URL === undefined ||
\*     process.env.OLLAMA_MODEL === undefined) throw new Error(...)
ModelThrows(e) == e["OLLAMA_BASE_URL"] = Undefined \/ e["OLLAMA_MODEL"] = Undefined

\* m = process.env.GOOGLE_API_KEY ? createGoogleGenerativeAI(...) : createOpenAI(...)
Provider(e) == IF Truthy(e["GOOGLE_API_KEY"]) THEN "google" ELSE "openai"

\* process.env.GOOGLE_MODEL ?? process.env.OLLAMA_MODEL: the variable the name of
\* the model is taken from, and the name
ModelName(e) ==
    IF e["GOOGLE_MODEL"] # Undefined
    THEN <<"GOOGLE_MODEL", e["GOOGLE_MODEL"]>>
    ELSE <<"OLLAMA_MODEL", e["OLLAMA_MODEL"]>>

\* what the evaluation of the module gives: the Error it throws, or AIModel
EvaluateModel(e) ==
    IF ModelThrows(e)
    THEN [kind |-> "throw", message |-> "Missing environment variables",
          provider |-> "", model |-> << >>]
    ELSE [kind |-> "loaded", message |-> "", provider |-> Provider(e), model |-> ModelName(e)]

(* ------------------------------------------------------------------ *)
(* getRepositoryData                                                   *)
(* ------------------------------------------------------------------ *)

NoToken == ""

\* the credential that opens the private repository
RepoToken == "ghp_token"

\* getRepositoryData(url, headers = {}, branch = "HEAD"); credential is the
\* user-info part of url
DefaultCall == [credential |-> NoToken, headers |-> {}, branch |-> "HEAD"]

\* the remote serves a private repository only to a request with the credential
Private(u) == u = "private"

\* clone({ url, headers, ... }) is let in by the remote
Authorized(u, c) ==
    \/ ~Private(u)
    \/ c.credential = RepoToken
    \/ <<"Authorization", RepoToken>> \in c.headers

NoRef == ""

\* const dir = await fs.promises.mkdtemp(...)
Mkdtemp(i) ==
    /\ pc[i] = "mkdtemp"
    /\ \E d \in MkdtempChoices(DOMAIN fs) :
          /\ dir' = [dir EXCEPT ![i] = d]
          /\ fs' = [ x \in (DOMAIN fs) \cup {d} |-> IF x = d THEN "" ELSE fs[x] ]
    /\ pc' = [pc EXCEPT ![i] = "clone"]
    /\ UNCHANGED <<call, walked, url, unreadable, fileContents, wst, structure, sst, pending, outcome, log>>
    /\ UNCHANGED routeVars

\* await clone({ dir, url, singleBranch, depth: 1 }) resolves
CloneOk(i) ==
    /\ pc[i] = "clone"
    /\ Authorized(url[i], call[i])
    /\ fs' = [ x \in (DOMAIN fs) \cup {dir[i]} |-> IF x = dir[i] THEN url[i] ELSE fs[x] ]
    /\ pc' = [pc EXCEPT ![i] = "listFiles"]
    /\ UNCHANGED <<call, walked, url, unreadable, dir, fileContents, wst, structure, sst, pending, outcome, log>>
    /\ UNCHANGED routeVars

\* await clone(...) rejects (network or authentication failure)
CloneFail(i) ==
    /\ pc[i] = "clone"
    /\ \E m \in CloneErrors : Catch(i, m)
    /\ UNCHANGED <<call, walked, url, unreadable, dir, fs, fileContents, wst, structure, sst, outcome>>
    /\ UNCHANGED routeVars

\* listFiles: the paths of the entries of the ref's tree that are not directories
ListedFiles(u) == { p \in DOMAIN Tree(u) : Tree(u)[p] # "tree" }

\* the state of walkTree's callbacks when walk starts.  The part of a callback
\* before await entry.type() reads and writes nothing shared, so it is taken
\* together with the start of the callback: an entry the filter skips has
\* returned (undefined, so its children are still walked) as soon as it starts.
WalkStart(u) == [ p \in DOMAIN Tree(u) |-> IF SkippedByFilter(p) THEN "done" ELSE "type" ]

\* const commitOid = await listFiles({ ref: branch || "HEAD" }), the test of its
\* length, new Map(), parseIgnorePatterns and the call of walkTree
ListFiles(i) ==
    /\ pc[i] = "listFiles"
    /\ IF ~DirThere(i) \/ ~HeadResolves(fs[dir[i]])
       THEN /\ Catch(i, "Could not find HEAD.")
            /\ UNCHANGED <<fileContents, wst, walked>>
       ELSE IF ListedFiles(fs[dir[i]]) = {}
       THEN /\ Catch(i, "Could not find commit for branch: HEAD")
            /\ UNCHANGED <<fileContents, wst, walked>>
       ELSE /\ fileContents' = [fileContents EXCEPT ![i] = << >>]
            /\ wst' = [wst EXCEPT ![i] = WalkStart(fs[dir[i]])]
            /\ walked' = [walked EXCEPT ![i].extraction = call[i].branch]
            /\ pc' = [pc EXCEPT ![i] = "walkTree"]
            /\ UNCHANGED <<pending, log>>
    /\ UNCHANGED <<call, url, unreadable, dir, fs, structure, sst, outcome>>
    /\ UNCHANGED routeVars

\* walk calls the callback of an entry once the callbacks of the directories
\* above it have returned (none returns null), siblings concurrently
Started(st, p) == \A a \in Ancestors(p) : a \in DOMAIN st /\ st[a] = "done"

\* type === "blob" && fileContents.size < 11
TakesBlob(type, size) == type = "blob" /\ size < SizeLimit

\* walkTree's callback for p resumes after await entry.type()
WalkType(i, p) ==
    /\ pc[i] = "walkTree"
    /\ p \in DOMAIN wst[i]
    /\ wst[i][p] = "type"
    /\ Started(wst[i], p)
    /\ IF ~Readable(i, p)
       THEN /\ Catch(i, "ENOENT")
            /\ UNCHANGED wst
       ELSE /\ wst' = [wst EXCEPT ![i][p] =
                          IF TakesBlob(Tree(fs[dir[i]])[p], Cardinality(DOMAIN fileContents[i]))
                          THEN "content" ELSE "done"]
            /\ UNCHANGED <<pc, pending, log>>
    /\ UNCHANGED <<call, walked, url, unreadable, dir, fs, fileContents, structure, sst, outcome>>
    /\ UNCHANGED routeVars

\* Buffer.from(bytes).toString("utf8"), wrapped in the fence of the file's type
FormattedContent(filepath, content) ==
    addMarkdownPrefix(filepath) \o <<content>> \o addMarkdownSuffix(filepath)

\* walkTree's callback for p resumes after await entry.content()
WalkContent(i, p) ==
    /\ pc[i] = "walkTree"
    /\ p \in DOMAIN wst[i]
    /\ wst[i][p] = "content"
    /\ IF ~Readable(i, p) \/ p \in unreadable[i]
       THEN /\ Catch(i, "read failed")
            /\ UNCHANGED <<wst, fileContents>>
       ELSE /\ fileContents' = [fileContents EXCEPT ![i] =
                  MapSet(@, p, [path |-> p,
                                content |-> FormattedContent(p, [repo |-> fs[dir[i]], file |-> p])])]
            /\ wst' = [wst EXCEPT ![i][p] = "done"]
            /\ UNCHANGED <<pc, pending, log>>
    /\ UNCHANGED <<call, walked, url, unreadable, dir, fs, structure, sst, outcome>>
    /\ UNCHANGED routeVars

\* a structure walk whose callback applies the filter of the extraction walk
StructStartFiltered(u) == WalkStart(u)

\* the state of getRepositoryStructure's callbacks when its walk starts: every
\* entry is asked for its type
StructStart(u) == [ p \in DOMAIN Tree(u) |-> "type" ]

\* await walkTree(...) resolves, and getRepositoryStructure starts its walk
WalkTreeReturn(i) ==
    /\ pc[i] = "walkTree"
    /\ \A p \in DOMAIN wst[i] : wst[i][p] = "done"
    /\ pc' = [pc EXCEPT ![i] = "structure"]
    /\ structure' = [structure EXCEPT ![i] = << >>]
    /\ sst' = [sst EXCEPT ![i] = IF DirThere(i) THEN StructStart(fs[dir[i]]) ELSE << >>]
    /\ walked' = [walked EXCEPT ![i].structure = call[i].branch]
    /\ UNCHANGED <<call, url, unreadable, dir, fs, fileContents, wst, pending, outcome, log>>
    /\ UNCHANGED routeVars

\* String.prototype.repeat
RECURSIVE Repeat(_, _)
Repeat(s, n) == IF n <= 0 THEN << >> ELSE s \o Repeat(s, n - 1)

\* a callback that tells directories from the rest only
AnnotationOfDirectoriesOnly(type) ==
    IF type = "tree" THEN " (directory)" ELSE " (unknown)"

\* the annotation getRepositoryStructure's callback gives an entry of a type
Annotation(type) ==
    CASE type = "tree" -> " (directory)"
      [] type = "blob" -> " (file)"
      [] OTHER -> " (unknown)"

\* spaces + "- " + filepath + annotation + "\n", with two spaces for each "/" of
\* the path
StructureLine(filepath, type) ==
    Repeat(<<" ", " ">>, Len(Segments(filepath)) - 1)
        \o <<"-", " ">> \o filepath \o <<Annotation(type), "\n">>

\* getRepositoryStructure's callback for p resumes after await entry.type() and
\* appends its line
StructType(i, p) ==
    /\ pc[i] = "structure"
    /\ p \in DOMAIN sst[i]
    /\ sst[i][p] = "type"
    /\ Started(sst[i], p)
    /\ IF ~Readable(i, p)
       THEN /\ Catch(i, "ENOENT")
            /\ UNCHANGED <<structure, sst>>
       ELSE /\ structure' = [structure EXCEPT ![i] =
                                @ \o StructureLine(p, Tree(fs[dir[i]])[p])]
            /\ sst' = [sst EXCEPT ![i][p] = "done"]
            /\ UNCHANGED <<pc, pending, log>>
    /\ UNCHANGED <<call, walked, url, unreadable, dir, fs, fileContents, wst, outcome>>
    /\ UNCHANGED routeVars

\* await getRepositoryStructure(...) resolves: return { fileContents, structure }
StructureReturn(i) ==
    /\ pc[i] = "structure"
    /\ \A p \in DOMAIN sst[i] : sst[i][p] = "done"
    /\ pending' = [pending EXCEPT ![i] = Returned]
    /\ pc' = [pc EXCEPT ![i] = "finally"]
    /\ UNCHANGED <<call, walked, url, unreadable, dir, fs, fileContents, wst, structure, sst, outcome, log>>
    /\ UNCHANGED routeVars

\* a finally block that lets the error of rm escape
CleanupErrorPropagates(completion) ==
    [kind |-> "throw", class |-> "Error", message |-> <<"", "rm failed">>]

\* the completion of getRepositoryData when rm rejected in the finally block:
\* the inner catch logs the error, so the completion of the try/catch stands
AfterCleanupError(completion) == completion

\* finally: await fs.promises.rm(dir, { recursive: true, force: true }) resolves
CleanupOk(i) ==
    /\ pc[i] = "finally"
    /\ fs' = [ x \in (DOMAIN fs) \ {dir[i]} |-> fs[x] ]
    /\ outcome' = [outcome EXCEPT ![i] = pending[i]]
    /\ pc' = [pc EXCEPT ![i] = "done"]
    /\ UNCHANGED <<call, walked, url, unreadable, dir, fileContents, wst, structure, sst, pending, log>>
    /\ UNCHANGED routeVars

\* finally: rm rejects, the directory stays and the error is logged
CleanupFail(i) ==
    /\ pc[i] = "finally"
    /\ log' = [log EXCEPT ![i] = Append(@, "Error cleaning up temporary directory:")]
    /\ outcome' = [outcome EXCEPT ![i] = AfterCleanupError(pending[i])]
    /\ pc' = [pc EXCEPT ![i] = "done"]
    /\ UNCHANGED <<call, walked, url, unreadable, dir, fs, fileContents, wst, structure, sst, pending>>
    /\ UNCHANGED routeVars

(* ------------------------------------------------------------------ *)
(* generateDoc and the route POST /api/generate-docs-core              *)
(* ------------------------------------------------------------------ *)

\* dataStream.writeData({ status })
StatusItem(status) ==
    [type |-> "status", path |-> << >>, text |-> 0, message |-> "", status |-> status]

\* dataStream.writeData({ path, text: textPart, type: "chunk" }), for the k-th
\* fragment of the text stream of path
ChunkItem(path, k) ==
    [type |-> "chunk", path |-> path, text |-> k, message |-> "", status |-> ""]

\* dataStream.writeData({ path, type: "info", message: "done" })
InfoItem(path) ==
    [type |-> "info", path |-> path, text |-> 0, message |-> "done", status |-> ""]

\* the first request to the route evaluates route.ts and the modules it imports,
\* lib/ai/model.ts among them; when that throws there is no handler to run
LoadModel(i) ==
    /\ rpc[i] = "import"
    /\ aimodel' = EvaluateModel(env)
    /\ rpc' = [rpc EXCEPT ![i] = IF ModelThrows(env) THEN "crashed" ELSE "idle"]
    /\ UNCHANGED <<data, notes, streams, summary, unit, env, token>>
    /\ UNCHANGED repoVars
    /\ UNCHANGED sumVars
    /\ UNCHANGED hVars

\* the arguments getRepositoryData gets for a request body { repoUrl, accessToken }:
\* the route takes repoUrl alone from the body, generateDoc(url) calls
\* getRepositoryData(url), and headers and branch take their default values
CoreRouteCall(accessToken) == DefaultCall

\* const { repoUrl } = await request.json(); dataStream.writeData({ status:
\* "initializing" }); generateDoc(repoUrl) calls getRepositoryData(url)
RouteStart(i) ==
    /\ rpc[i] = "idle"
    /\ data' = [data EXCEPT ![i] = Append(@, StatusItem("initializing"))]
    /\ rpc' = [rpc EXCEPT ![i] = "generateDoc"]
    /\ call' = [call EXCEPT ![i] = CoreRouteCall(token[i])]
    /\ pc' = [pc EXCEPT ![i] = "mkdtemp"]
    /\ UNCHANGED <<walked, url, unreadable, dir, fs, fileContents, wst, structure, sst, pending, outcome, log>>
    /\ UNCHANGED <<notes, streams, summary, unit>>
    /\ UNCHANGED reqVars
    /\ UNCHANGED sumVars
    /\ UNCHANGED hVars

\* generateDoc summarizes the files whose path ends with .ts, .tsx, .js or .jsx
Summarized(path) ==
    \/ EndsWith(path, <<".","t","s">>)
    \/ EndsWith(path, <<".","t","s","x">>)
    \/ EndsWith(path, <<".","j","s">>)
    \/ EndsWith(path, <<".","j","s","x">>)

\* what parseTypeScriptCodeWithCompiler and parseTypeScriptApiAndStructure can do
\* with a file: a digest, the empty digest "[]", parseTypeScriptCodeWithCompiler
\* returning null, parseTypeScriptApiAndStructure throwing; "none" for a file
\* generateDoc does not summarize
SummaryOutcomes(path) ==
    IF Summarized(path) THEN {"digest", "empty", "null", "throws"} ELSE {"none"}

\* parseTypeScriptApiAndStructure(null) reads null.kind and throws a TypeError;
\* generateDoc has no try around the two calls
SummaryThrows(o) == o \in {"null", "throws"}

\* ASTstring !== "[]" ? ASTstring : content.content
PromptUnit(o) == IF o = "digest" THEN "digest" ELSE "raw"

\* a loop that starts a stream for the summarized files only
StreamsForSummarized(files) ==
    [ p \in { q \in DOMAIN files : Summarized(q) } |-> [sent |-> 0, state |-> "open"] ]

\* the loop for (const [path, content] of fileContents) { ...;
\* streams.set(path, streamText(...)) }: one text stream, not read yet, per entry
StreamsFor(files) == [ p \in DOMAIN files |-> [sent |-> 0, state |-> "open"] ]

\* a generateDoc that swallows the error of getRepositoryData
IngestionErrorSwallowed(completion) == FALSE

\* const { fileContents, structure } = await getRepositoryData(url): a rejection
\* is not caught in generateDoc, which rejects with it
GenerateDocRejects(completion) == completion.kind = "throw"

\* the catch block of execute
RouteFailed(i) ==
    /\ data' = [data EXCEPT ![i] = Append(@, StatusItem("failed"))]
    /\ rpc' = [rpc EXCEPT ![i] = "settled"]

\* await getRepositoryData(url) settles in generateDoc; the loop over fileContents
\* (it has no await) builds the streams; in the route await generateDoc(repoUrl)
\* settles, and Promise.all starts one callback for each stream, each writing its
\* annotation and suspending at the first read of its text stream
GenerateDoc(i) ==
    /\ rpc[i] = "generateDoc"
    /\ pc[i] = "done"
    /\ IF GenerateDocRejects(outcome[i])
       THEN /\ RouteFailed(i)
            /\ UNCHANGED <<notes, streams, summary, unit>>
       ELSE \E o \in [ DOMAIN fileContents[i] -> {"digest", "empty", "null", "throws", "none"} ] :
              /\ \A p \in DOMAIN fileContents[i] : o[p] \in SummaryOutcomes(p)
              /\ summary' = [summary EXCEPT ![i] = o]
              /\ IF \E p \in DOMAIN fileContents[i] : SummaryThrows(o[p])
                 THEN /\ RouteFailed(i)
                      /\ UNCHANGED <<notes, streams, unit>>
                 ELSE /\ unit' = [unit EXCEPT ![i] =
                                     [ p \in DOMAIN fileContents[i] |-> PromptUnit(o[p]) ]]
                      /\ streams' = [streams EXCEPT ![i] = StreamsFor(fileContents[i])]
                      /\ notes' = [notes EXCEPT ![i] = DOMAIN fileContents[i]]
                      /\ rpc' = [rpc EXCEPT ![i] = "consuming"]
                      /\ UNCHANGED data
    /\ UNCHANGED repoVars
    /\ UNCHANGED reqVars
    /\ UNCHANGED sumVars
    /\ UNCHANGED hVars

\* the callbacks of Promise.all read their text streams; those that have not
\* returned when execute settles go on reading, before and after the response
\* stream is closed
Consuming(i) == rpc[i] \in {"consuming", "settled", "closed"}

\* dataStream.writeData(item): the item is enqueued on the response stream; once
\* the stream is closed the write is dropped silently
WriteData(i, item) == IF rpc[i] = "closed" THEN data[i] ELSE Append(data[i], item)

\* for await (const textPart of textStream): the stream of p yields a fragment
StreamChunk(i, p) ==
    /\ Consuming(i)
    /\ p \in DOMAIN streams[i]
    /\ streams[i][p].state = "open"
    /\ streams[i][p].sent < MaxChunks
    /\ data' = [data EXCEPT ![i] = WriteData(i, ChunkItem(p, streams[i][p].sent + 1))]
    /\ streams' = [streams EXCEPT ![i][p].sent = @ + 1]
    /\ UNCHANGED <<rpc, notes, summary, unit>>
    /\ UNCHANGED repoVars
    /\ UNCHANGED reqVars
    /\ UNCHANGED sumVars
    /\ UNCHANGED hVars

\* the text stream of p ends: the callback writes the "done" item of p and returns
StreamEnd(i, p) ==
    /\ Consuming(i)
    /\ p \in DOMAIN streams[i]
    /\ streams[i][p].state = "open"
    /\ data' = [data EXCEPT ![i] = WriteData(i, InfoItem(p))]
    /\ streams' = [streams EXCEPT ![i][p].state = "done"]
    /\ UNCHANGED <<rpc, notes, summary, unit>>
    /\ UNCHANGED repoVars
    /\ UNCHANGED reqVars
    /\ UNCHANGED sumVars
    /\ UNCHANGED hVars

\* the text stream of p throws and the callback of p rejects.  The first
\* rejection rejects Promise.all: the catch block of execute runs and execute
\* settles.  A later rejection is ignored.
StreamError(i, p) ==
    /\ Consuming(i)
    /\ p \in DOMAIN streams[i]
    /\ streams[i][p].state = "open"
    /\ streams' = [streams EXCEPT ![i][p].state = "failed"]
    /\ IF rpc[i] = "consuming" THEN RouteFailed(i) ELSE UNCHANGED <<data, rpc>>
    /\ UNCHANGED <<notes, summary, unit>>
    /\ UNCHANGED repoVars
    /\ UNCHANGED reqVars
    /\ UNCHANGED sumVars
    /\ UNCHANGED hVars

\* a route that writes the status done when the first callback has returned
RouteDoneAtFirstEnd(i) ==
    /\ rpc[i] = "consuming"
    /\ \E p \in DOMAIN streams[i] : streams[i][p].state = "done"
    /\ data' = [data EXCEPT ![i] = Append(@, StatusItem("done"))]
    /\ rpc' = [rpc EXCEPT ![i] = "settled"]
    /\ UNCHANGED <<notes, streams, summary, unit>>
    /\ UNCHANGED repoVars
    /\ UNCHANGED reqVars
    /\ UNCHANGED sumVars
    /\ UNCHANGED hVars

\* await Promise.all(...) resolves: dataStream.writeData({ status: "done" })
RouteDone(i) ==
    /\ rpc[i] = "consuming"
    /\ \A p \in DOMAIN streams[i] : streams[i][p].state = "done"
    /\ data' = [data EXCEPT ![i] = Append(@, StatusItem("done"))]
    /\ rpc' = [rpc EXCEPT ![i] = "settled"]
    /\ UNCHANGED <<notes, streams, summary, unit>>
    /\ UNCHANGED repoVars
    /\ UNCHANGED reqVars
    /\ UNCHANGED sumVars
    /\ UNCHANGED hVars

\* createDataStreamResponse closes the response stream some steps after the
\* promise of execute has settled
CloseResponse(i) ==
    /\ rpc[i] = "settled"
    /\ rpc' = [rpc EXCEPT ![i] = "closed"]
    /\ UNCHANGED <<data, notes, streams, summary, unit>>
    /\ UNCHANGED repoVars
    /\ UNCHANGED reqVars
    /\ UNCHANGED sumVars
    /\ UNCHANGED hVars

(* ------------------------------------------------------------------ *)
(* ast/parser: the syntax trees the TypeScript compiler hands over     *)
(* ------------------------------------------------------------------ *)

\* A node of the syntax tree is a record: kind is ts.SyntaxKind[node.kind], src is
\* node.getText() as a sequence of pieces of text, kids are the nodes
\* ts.forEachChild visits, in its order; the other fields are the properties of
\* the node the summarizer reads, absent when the compiler leaves them undefined.
Has(node, field) == field \in DOMAIN node

\* the kinds ts.isToken holds of: punctuation, keywords, identifiers and literals
TokenKinds ==
    { "Identifier", "NumericLiteral", "StringLiteral", "TrueKeyword", "FalseKeyword",
      "EndOfFileToken", "ExportKeyword", "AsyncKeyword", "PublicKeyword",
      "PrivateKeyword", "StaticKeyword", "ReadonlyKeyword", "EqualsToken",
      "StringKeyword", "VoidKeyword", "NumberKeyword" }

Token(kind, src) == [kind |-> kind, src |-> src, kids |-> << >>]

Identifier(name) == Token("Identifier", <<name>>)

NumericLiteral(digits) == Token("NumericLiteral", <<digits>>) @@ [text |-> <<digits>>]

\* a string literal in double quotes: getText() has the quotes, text has not
StringLiteral(chars) ==
    Token("StringLiteral", <<"\"", chars, "\"">>) @@ [text |-> <<chars>>]

\* the source text of a list of nodes, sep between them
RECURSIVE JoinSrc(_, _)
JoinSrc(nodes, sep) ==
    IF nodes = << >> THEN << >>
    ELSE IF Len(nodes) = 1 THEN nodes[1].src
    ELSE nodes[1].src \o <<sep>> \o JoinSrc(Tail(nodes), sep)

\* { statements }
Block(statements) ==
    [kind |-> "Block", src |-> <<"{ ">> \o JoinSrc(statements, " ") \o <<" }">>,
     kids |-> statements]

\* return expression;
ReturnStatement(expression) ==
    [kind |-> "ReturnStatement", src |-> <<"return ">> \o expression.src \o <<";">>,
     kids |-> <<expression>>, expression |-> expression]

\* if (expression) thenStatement else elseStatement
IfElseStatement(expression, thenStatement, elseStatement) ==
    [kind |-> "IfStatement",
     src |-> <<"if (">> \o expression.src \o <<") ">> \o thenStatement.src
                 \o <<" else ">> \o elseStatement.src,
     kids |-> <<expression, thenStatement, elseStatement>>,
     expression |-> expression, thenStatement |-> thenStatement,
     elseStatement |-> elseStatement]

\* if (expression) thenStatement
IfStatement(expression, thenStatement) ==
    [kind |-> "IfStatement",
     src |-> <<"if (">> \o expression.src \o <<") ">> \o thenStatement.src,
     kids |-> <<expression, thenStatement>>,
     expression |-> expression, thenStatement |-> thenStatement]

\* while (expression) statement
WhileStatement(expression, statement) ==
    [kind |-> "WhileStatement",
     src |-> <<"while (">> \o expression.src \o <<") ">> \o statement.src,
     kids |-> <<expression, statement>>]

\* callee(arguments)
CallExpression(callee, arguments) ==
    [kind |-> "CallExpression",
     src |-> callee.src \o <<"(">> \o JoinSrc(arguments, ", ") \o <<")">>,
     kids |-> <<callee>> \o arguments,
     expression |-> callee, arguments |-> arguments]

\* expression;
ExpressionStatement(expression) ==
    [kind |-> "ExpressionStatement", src |-> expression.src \o <<";">>,
     kids |-> <<expression>>, expression |-> expression]

\* left = right
Assignment(left, right) ==
    [kind |-> "BinaryExpression", src |-> left.src \o <<" = ">> \o right.src,
     kids |-> <<left, Token("EqualsToken", <<"=">>), right>>]

\* a parameter without type, initializer or question mark
Parameter(name) ==
    [kind |-> "Parameter", src |-> <<name>>, kids |-> <<Identifier(name)>>,
     name |-> Identifier(name)]

\* the named property of a node as a list of kids: empty when it is absent
KidIf(r, field) == IF field \in DOMAIN r THEN <<r[field]>> ELSE << >>

\* a function-like declaration; r gives modifiers, parameters and, when the source
\* has them, name, type and body.  forEachChild visits modifiers, name,
\* parameters, type, body.
FunctionLike(kind, r) ==
    r @@ [kind |-> kind,
          src |-> <<kind>> \o JoinSrc(KidIf(r, "name"), "") \o <<"(">>
                      \o JoinSrc(r.parameters, ", ") \o <<") ">> \o JoinSrc(KidIf(r, "body"), ""),
          kids |-> r.modifiers \o KidIf(r, "name") \o r.parameters
                      \o KidIf(r, "type") \o KidIf(r, "body")]

\* extends / implements clause of a class: token and the types it lists
HeritageClause(keyword, names) ==
    [kind |-> "HeritageClause",
     src |-> <<keyword>> \o JoinSrc([k \in 1..Len(names) |-> Identifier(names[k])], ", "),
     token |-> keyword,
     types |-> [ k \in 1..Len(names) |->
                   [kind |-> "ExpressionWithTypeArguments", src |-> <<names[k]>>,
                    kids |-> <<Identifier(names[k])>>, expression |-> Identifier(names[k])] ],
     kids |-> [ k \in 1..Len(names) |->
                   [kind |-> "ExpressionWithTypeArguments", src |-> <<names[k]>>,
                    kids |-> <<Identifier(names[k])>>, expression |-> Identifier(names[k])] ]]

\* class name heritageClauses { members }
ClassDeclaration(name, modifiers, heritageClauses, members) ==
    [kind |-> "ClassDeclaration",
     src |-> <<"class ", name, " ">> \o JoinSrc(heritageClauses, " ") \o <<" { ">>
                 \o JoinSrc(members, " ") \o <<" }">>,
     kids |-> modifiers \o <<Identifier(name)>> \o heritageClauses \o members,
     name |-> Identifier(name), modifiers |-> modifiers,
     heritageClauses |-> heritageClauses, members |-> members]

\* a property of a class or of an interface; r gives name, modifiers and, when
\* the source has them, type and initializer
Property(kind, r) ==
    r @@ [kind |-> kind,
          src |-> r.name.src
                  \o (IF Has(r, "type") THEN <<": ">> \o r.type.src ELSE << >>)
                  \o (IF Has(r, "initializer") THEN <<" = ">> \o r.initializer.src ELSE << >>),
          kids |-> r.modifiers \o <<r.name>> \o KidIf(r, "type") \o KidIf(r, "initializer")]

\* interface name { members }
InterfaceDeclaration(name, modifiers, members) ==
    [kind |-> "InterfaceDeclaration",
     src |-> <<"interface ", name, " { ">> \o JoinSrc(members, " ") \o <<" }">>,
     kids |-> modifiers \o <<Identifier(name)>> \o members,
     name |-> Identifier(name), modifiers |-> modifiers, members |-> members]

\* type name = type
TypeAliasDeclaration(name, modifiers, type) ==
    [kind |-> "TypeAliasDeclaration", src |-> <<"type ", name, " = ">> \o type.src,
     kids |-> modifiers \o <<Identifier(name), type>>,
     name |-> Identifier(name), modifiers |-> modifiers, type |-> type]

\* a member of an enum; r gives name and, when the source has it, initializer
EnumMember(r) ==
    r @@ [kind |-> "EnumMember", src |-> r.name.src \o JoinSrc(KidIf(r, "initializer"), ""),
          kids |-> <<r.name>> \o KidIf(r, "initializer")]

\* enum name { members }
EnumDeclaration(name, modifiers, members) ==
    [kind |-> "EnumDeclaration",
     src |-> <<"enum ", name, " { ">> \o JoinSrc(members, ", ") \o <<" }">>,
     kids |-> modifiers \o <<Identifier(name)>> \o members,
     name |-> Identifier(name), modifiers |-> modifiers, members |-> members]

\* a declaration of a variable; r gives name and, when the source has them, type
\* and initializer
VariableDeclaration(r) ==
    r @@ [kind |-> "VariableDeclaration",
          src |-> r.name.src
                  \o (IF Has(r, "type") THEN <<": ">> \o r.type.src ELSE << >>)
                  \o (IF Has(r, "initializer") THEN <<" = ">> \o r.initializer.src ELSE << >>),
          kids |-> <<r.name>> \o KidIf(r, "type") \o KidIf(r, "initializer")]

\* const declarations;
VariableStatement(modifiers, declarations) ==
    LET list == [kind |-> "VariableDeclarationList",
                 src |-> <<"const ">> \o JoinSrc(declarations, ", "),
                 kids |-> declarations, declarations |-> declarations]
    IN  [kind |-> "VariableStatement", src |-> list.src \o <<";">>,
         kids |-> modifiers \o <<list>>,
         modifiers |-> modifiers, declarationList |-> list]

\* name, or propertyName as name, in the braces of an import or an export
Specifier(kind, r) ==
    r @@ [kind |-> kind, src |-> JoinSrc(KidIf(r, "propertyName") \o <<r.name>>, " as "),
          kids |-> KidIf(r, "propertyName") \o <<r.name>>]

\* { elements } of an import (NamedImports) or an export (NamedExports)
NamedBindings(kind, elements) ==
    [kind |-> kind, src |-> <<"{ ">> \o JoinSrc(elements, ", ") \o <<" }">>,
     kids |-> elements, elements |-> elements]

\* * as name
NamespaceImport(name) ==
    [kind |-> "NamespaceImport", src |-> <<"* as ", name>>, kids |-> <<Identifier(name)>>,
     name |-> Identifier(name)]

\* the clause of an import; r gives, when the source has them, name (the default
\* import) and namedBindings
ImportClause(r) ==
    r @@ [kind |-> "ImportClause",
          src |-> JoinSrc(KidIf(r, "name") \o KidIf(r, "namedBindings"), ", "),
          kids |-> KidIf(r, "name") \o KidIf(r, "namedBindings")]

\* import importClause from moduleSpecifier
ImportDeclaration(importClause, moduleSpecifier) ==
    [kind |-> "ImportDeclaration",
     src |-> <<"import ">> \o importClause.src \o <<" from ">> \o moduleSpecifier.src,
     kids |-> <<importClause, moduleSpecifier>>,
     importClause |-> importClause, moduleSpecifier |-> moduleSpecifier]

\* an export declaration; r gives isTypeOnly and, when the source has them,
\* exportClause and moduleSpecifier
ExportDeclaration(r) ==
    r @@ [kind |-> "ExportDeclaration",
          src |-> <<"export ">> \o JoinSrc(KidIf(r, "exportClause") \o KidIf(r, "moduleSpecifier"), " from "),
          kids |-> KidIf(r, "exportClause") \o KidIf(r, "moduleSpecifier")]

\* ts.createSourceFile("temp.ts", code, ...): the statements and the end of file
SourceFile(statements) ==
    [kind |-> "SourceFile", src |-> JoinSrc(statements, "\n"),
     fileName |-> <<"temp", ".ts">>, statements |-> statements,
     kids |-> statements \o <<Token("EndOfFileToken", << >>)>>]

(* ------------------------------------------------------------------ *)
(* ast/parser: parseTypeScriptApiAndStructure                          *)
(* ------------------------------------------------------------------ *)

\* the values of the scalar properties of an LlmAstNode: a string (its text as a
\* sequence of pieces), a number, a boolean, or undefined
JsString(s) == [t |-> "string", v |-> s]

JsNumber(s) == [t |-> "number", v |-> s]

JsBoolean(b) == [t |-> "boolean", v |-> IF b THEN <<"true">> ELSE <<"false">>]

JsUndefined == [t |-> "undefined", v |-> << >>]

\* node.getText(context.sourceFile)
GetText(node) == JsString(node.src)

\* no property set
NoFields == [ k \in {} |-> k ]

\* processNode and processFunctionLogicNode returning null
Null == [type |-> <<"null">>]

IsNull(n) == n.type = <<"null">>

\* the results that are pushed: if (processed) list.push(processed)
Kept(results) == SelectSeq(results, LAMBDA n : ~IsNull(n))

\* String.prototype.replace(/['"]/g, "")
RemoveQuotes(s) == SelectSeq(s, LAMBDA c : c \notin {"'", "\""})

\* fileName.replace(/\.ts(x)?$/, "")
StripTsExtension(f) ==
    IF f # << >> /\ f[Len(f)] \in {".ts", ".tsx"} THEN SubSeq(f, 1, Len(f) - 1) ELSE f

\* getJSDoc: the comments of the JSDoc of the node joined, undefined without any
getJSDoc(node) == IF Has(node, "jsDoc") THEN JsString(node.jsDoc) ELSE JsUndefined

\* getModifiers: the names of the modifiers of a node that can have modifiers,
\* each ts.SyntaxKind[m.kind].toLowerCase().replace("keyword", "")
getModifiers(node) ==
    LET ModifierName(kind) ==
            CASE kind = "ExportKeyword" -> <<"export">>
              [] kind = "AsyncKeyword" -> <<"async">>
              [] kind = "PublicKeyword" -> <<"public">>
              [] kind = "PrivateKeyword" -> <<"private">>
              [] kind = "StaticKeyword" -> <<"static">>
              [] kind = "ReadonlyKeyword" -> <<"readonly">>
              [] OTHER -> <<kind>>
    IN  IF Has(node, "modifiers")
        THEN [ k \in 1..Len(node.modifiers) |-> ModifierName(node.modifiers[k].kind) ]
        ELSE << >>

\* getTypeString(node[field]): "any" for a missing type node
getTypeString(node, field) ==
    IF Has(node, field) THEN GetText(node[field]) ELSE JsString(<<"any">>)

\* the signature of a function-like node; returnType is getTypeString(node.type),
\* and "void" for a constructor
Signature(node, returnType) ==
    [parameters |-> [ k \in 1..Len(node.parameters) |->
                        [name |-> GetText(node.parameters[k].name),
                         type |-> getTypeString(node.parameters[k], "type"),
                         isOptional |-> JsBoolean(Has(node.parameters[k], "questionToken"))] ],
     returnType |-> returnType]

\* the property an initializer sets: value for a string, a number or a boolean
\* literal, assignedFromExpression for the rest
InitializerFields(initializer) ==
    CASE initializer.kind = "StringLiteral" -> [value |-> JsString(initializer.text)]
      [] initializer.kind = "NumericLiteral" -> [value |-> JsNumber(initializer.text)]
      [] initializer.kind = "TrueKeyword" -> [value |-> JsBoolean(TRUE)]
      [] initializer.kind = "FalseKeyword" -> [value |-> JsBoolean(FALSE)]
      [] OTHER -> [assignedFromExpression |-> GetText(initializer)]

\* the elements of an import declaration with the two names of a named import
\* exchanged
ImportedElementsSwapped(importDecl) ==
    IF ~Has(importDecl, "importClause") THEN << >>
    ELSE LET clause == importDecl.importClause
         IN  (IF Has(clause, "name")
              THEN << [name |-> GetText(clause.name), isDefault |-> JsBoolean(TRUE)] >>
              ELSE << >>)
             \o (IF ~Has(clause, "namedBindings") THEN << >>
                 ELSE IF clause.namedBindings.kind = "NamedImports"
                 THEN [ k \in 1..Len(clause.namedBindings.elements) |->
                          LET element == clause.namedBindings.elements[k]
                          IN  [name |-> IF Has(element, "propertyName")
                                        THEN GetText(element.propertyName)
                                        ELSE GetText(element.name),
                               alias |-> IF Has(element, "propertyName")
                                         THEN GetText(element.name)
                                         ELSE JsUndefined] ]
                 ELSE IF clause.namedBindings.kind = "NamespaceImport"
                 THEN << [name |-> GetText(clause.namedBindings.name),
                          isNamespace |-> JsBoolean(TRUE)] >>
                 ELSE << >>)

\* the elements an import declaration pushes: the default import, then the named
\* imports in their order or the namespace import
ImportedElements(importDecl) ==
    IF ~Has(importDecl, "importClause") THEN << >>
    ELSE LET clause == importDecl.importClause
         IN  (IF Has(clause, "name")
              THEN << [name |-> GetText(clause.name), isDefault |-> JsBoolean(TRUE)] >>
              ELSE << >>)
             \o (IF ~Has(clause, "namedBindings") THEN << >>
                 ELSE IF clause.namedBindings.kind = "NamedImports"
                 THEN [ k \in 1..Len(clause.namedBindings.elements) |->
                          LET element == clause.namedBindings.elements[k]
                          IN  [name |-> GetText(element.name),
                               alias |-> IF Has(element, "propertyName")
                                         THEN GetText(element.propertyName)
                                         ELSE JsUndefined] ]
                 ELSE IF clause.namedBindings.kind = "NamespaceImport"
                 THEN << [name |-> GetText(clause.namedBindings.name),
                          isNamespace |-> JsBoolean(TRUE)] >>
                 ELSE << >>)

\* exportDecl.moduleSpecifier?.getText(...).replace(/['"]/g, "")
ExportSpecifier(exportDecl) ==
    IF Has(exportDecl, "moduleSpecifier")
    THEN JsString(RemoveQuotes(exportDecl.moduleSpecifier.src))
    ELSE JsUndefined

\* the elements an export declaration pushes: the named exports, or "*" for
\* export * from
ExportedElements(exportDecl) ==
    IF Has(exportDecl, "exportClause")
    THEN IF exportDecl.exportClause.kind = "NamedExports"
         THEN [ k \in 1..Len(exportDecl.exportClause.elements) |->
                  LET element == exportDecl.exportClause.elements[k]
                  IN  [name |-> GetText(element.name),
                       alias |-> IF Has(element, "propertyName")
                                 THEN GetText(element.propertyName)
                                 ELSE JsUndefined,
                       fromModule |-> ExportSpecifier(exportDecl)] ]
         ELSE << >>
    ELSE IF Has(exportDecl, "moduleSpecifier")
    THEN << [name |-> JsString(<<"*">>), fromModule |-> ExportSpecifier(exportDecl)] >>
    ELSE << >>

\* the heritage clauses of a class: inheritsFrom is the last type after extends,
\* implements lists the types after implements; neither is set without a type
HeritageFields(classDecl) ==
    LET clauses == IF Has(classDecl, "heritageClauses") THEN classDecl.heritageClauses ELSE << >>
        ext == SelectSeq(clauses, LAMBDA c : c.token = "extends " /\ c.types # << >>)
        imp == SelectSeq(clauses, LAMBDA c : c.token = "implements " /\ c.types # << >>)
        Names(c) == [ k \in 1..Len(c.types) |-> GetText(c.types[k].expression) ]
        RECURSIVE All(_)
        All(cs) == IF cs = << >> THEN << >> ELSE Names(Head(cs)) \o All(Tail(cs))
    IN  (IF ext = << >> THEN NoFields
         ELSE [inheritsFrom |-> LET last == ext[Len(ext)]
                                IN  GetText(last.types[Len(last.types)].expression)])
        @@ (IF imp = << >> THEN NoFields ELSE [implements |-> All(imp)])

RECURSIVE processNode(_)
RECURSIVE processFunctionLogicNode(_)

\* the logic nodes of the body stored as the children of the node
LogicFlowAsChildren(node) ==
    IF Has(node, "body")
    THEN [children |-> Kept([ k \in 1..Len(node.body.kids) |->
                                 processFunctionLogicNode(node.body.kids[k]) ])]
    ELSE NoFields

\* ts.forEachChild(body, child => { logicNode = processFunctionLogicNode(child);
\* if (logicNode) logicFlow.push(logicNode) }), when the node has a body
LogicFlowFields(node) ==
    IF Has(node, "body")
    THEN [logicFlow |-> Kept([ k \in 1..Len(node.body.kids) |->
                                  processFunctionLogicNode(node.body.kids[k]) ])]
    ELSE NoFields

\* what the loop over the declarations of a variable statement pushes for one
\* declaration: the node of the arrow function it is initialized with, named
\* after the variable and with the modifiers of the statement before its own,
\* or a Variable node
VariableNode(varDecl, modifiers) ==
    LET varNode == [type |-> <<"Variable">>, name |-> GetText(varDecl.name),
                    dataType |-> getTypeString(varDecl, "type")]
    IN  IF ~Has(varDecl, "initializer") THEN varNode
        ELSE IF varDecl.initializer.kind = "ArrowFunction"
                /\ ~IsNull(processNode(varDecl.initializer))
        THEN LET arrowFuncNode == processNode(varDecl.initializer)
             IN  [name |-> varNode.name, modifiers |-> modifiers \o arrowFuncNode.modifiers]
                     @@ arrowFuncNode
        ELSE IF varDecl.initializer.kind = "ArrowFunction" THEN varNode
        ELSE InitializerFields(varDecl.initializer) @@ varNode

\* the core traversal: the LlmAstNode of a node of the syntax tree, or null
processNode(node) ==
    IF node.kind \in TokenKinds \cup {"MissingDeclaration", "CommaListExpression"} THEN Null
    ELSE
    LET nodeRep == [type |-> <<"Unknown">>, jsDoc |-> getJSDoc(node),
                    modifiers |-> getModifiers(node)]
        processed == Kept([ k \in 1..Len(node.kids) |-> processNode(node.kids[k]) ])
    IN  CASE node.kind = "SourceFile" ->
               [type |-> <<"Module">>, name |-> JsString(StripTsExtension(node.fileName)),
                children |-> processed] @@ nodeRep
          [] node.kind = "ImportDeclaration" ->
               [type |-> <<"Import">>,
                moduleSpecifier |-> JsString(RemoveQuotes(node.moduleSpecifier.src)),
                importedElements |-> ImportedElements(node)] @@ nodeRep
          [] node.kind = "ExportDeclaration" ->
               [type |-> <<"Export">>,
                exportedElements |-> ExportedElements(node),
                moduleSpecifier |-> ExportSpecifier(node),
                modifiers |-> IF node.isTypeOnly
                              THEN Append(nodeRep.modifiers, <<"typeOnly">>)
                              ELSE nodeRep.modifiers] @@ nodeRep
          [] node.kind \in {"FunctionDeclaration", "MethodDeclaration", "ArrowFunction"} ->
               LogicFlowFields(node)
               @@ [type |-> CASE node.kind = "FunctionDeclaration" -> <<"Function">>
                              [] node.kind = "MethodDeclaration" -> <<"Method">>
                              [] OTHER -> <<"ArrowFunction">>,
                   name |-> IF Has(node, "name") THEN GetText(node.name) ELSE JsUndefined,
                   signature |-> Signature(node, getTypeString(node, "type"))]
               @@ nodeRep
          [] node.kind = "ClassDeclaration" ->
               HeritageFields(node)
               @@ [type |-> <<"Class">>,
                   name |-> IF Has(node, "name") THEN GetText(node.name) ELSE JsUndefined,
                   children |-> Kept([ k \in 1..Len(node.members) |->
                                          processNode(node.members[k]) ])]
               @@ nodeRep
          [] node.kind \in {"PropertyDeclaration", "PropertySignature"} ->
               (IF node.kind = "PropertyDeclaration" /\ Has(node, "initializer")
                THEN InitializerFields(node.initializer) ELSE NoFields)
               @@ [type |-> IF node.kind = "PropertyDeclaration"
                            THEN <<"Property">> ELSE <<"PropertySignature">>,
                   name |-> GetText(node.name),
                   dataType |-> getTypeString(node, "type")]
               @@ nodeRep
          [] node.kind = "Constructor" ->
               LogicFlowFields(node)
               @@ [type |-> <<"Constructor">>,
                   signature |-> Signature(node, JsString(<<"void">>))]
               @@ nodeRep
          [] node.kind = "InterfaceDeclaration" ->
               [type |-> <<"Interface">>, name |-> GetText(node.name),
                children |-> Kept([ k \in 1..Len(node.members) |->
                                       processNode(node.members[k]) ])] @@ nodeRep
          [] node.kind = "TypeAliasDeclaration" ->
               [type |-> <<"TypeAlias">>, name |-> GetText(node.name),
                dataType |-> getTypeString(node, "type")] @@ nodeRep
          [] node.kind = "EnumDeclaration" ->
               [type |-> <<"Enum">>, name |-> GetText(node.name),
                children |-> [ k \in 1..Len(node.members) |->
                                 [type |-> <<"EnumMember">>,
                                  name |-> GetText(node.members[k].name),
                                  value |-> IF Has(node.members[k], "initializer")
                                            THEN GetText(node.members[k].initializer)
                                            ELSE JsUndefined] ]] @@ nodeRep
          [] node.kind = "VariableStatement" ->
               LET declarations == SelectSeq(node.declarationList.kids,
                                             LAMBDA d : d.kind = "VariableDeclaration")
               IN  [type |-> <<"VariableDeclarationGroup">>,
                    children |-> [ k \in 1..Len(declarations) |->
                                     VariableNode(declarations[k], nodeRep.modifiers) ]]
                   @@ nodeRep
          [] OTHER ->
               IF processed # << >>
               THEN [type |-> <<"GenericContainer (", node.kind, ")">>,
                     children |-> processed] @@ nodeRep
               ELSE Null

\* the logic node of a node inside the body of a function, or null
processFunctionLogicNode(node) ==
    LET logic == Kept([ k \in 1..Len(node.kids) |-> processFunctionLogicNode(node.kids[k]) ])
        Branch(type, statement) ==
            LET block == processFunctionLogicNode(statement)
            IN  IF IsNull(block) THEN << >> ELSE << [type |-> <<type>>, children |-> <<block>>] >>
    IN  CASE node.kind = "IfStatement" ->
               [type |-> <<"IfStatement">>,
                name |-> JsString(<<"if (">> \o node.expression.src \o <<")">>),
                children |->
                    (IF Has(node, "thenStatement")
                     THEN Branch("ThenBlock", node.thenStatement) ELSE << >>)
                    \o (IF Has(node, "elseStatement")
                        THEN Branch("ElseBlock", node.elseStatement) ELSE << >>)]
          [] node.kind = "ReturnStatement" ->
               [type |-> <<"ReturnStatement">>,
                value |-> IF Has(node, "expression")
                          THEN GetText(node.expression) ELSE JsString(<<"void">>)]
          [] node.kind = "CallExpression" ->
               [type |-> <<"FunctionCall">>, name |-> GetText(node.expression),
                children |-> [ k \in 1..Len(node.arguments) |->
                                 [type |-> <<"Argument">>,
                                  value |-> GetText(node.arguments[k])] ]]
          [] node.kind = "ExpressionStatement" ->
               processFunctionLogicNode(node.expression)
          [] node.kind = "Block" ->
               IF logic # << >> THEN [type |-> <<"Block">>, children |-> logic] ELSE Null
          [] node.kind \in {"ForStatement", "WhileStatement", "SwitchStatement", "TryStatement"} ->
               (IF logic # << >> THEN [children |-> logic] ELSE NoFields)
               @@ [type |-> <<node.kind>>]
          [] node.kind \in {"VariableStatement", "VariableDeclarationList", "VariableDeclaration"} ->
               LET varDeclarationNode == processNode(node)
               IN  IF ~IsNull(varDeclarationNode)
                      /\ varDeclarationNode.type \in {<<"Variable">>, <<"VariableDeclarationGroup">>}
                   THEN varDeclarationNode
                   ELSE Null
          [] OTHER ->
               IF logic # << >>
               THEN [type |-> <<"NestedLogic (", node.kind, ")">>,
                     children |-> logic, value |-> GetText(node)]
               ELSE Null

\* JSON.stringify of an object: a property whose value is undefined is left out,
\* the objects of its lists and its signature are written the same way
RECURSIVE Stringify(_)
Stringify(obj) ==
    LET \* the properties of an LlmAstNode that hold a string, a number, a boolean
        \* or undefined, and those that hold a list of objects
        ScalarKeys ==
            { "name", "jsDoc", "moduleSpecifier", "alias", "fromModule", "dataType",
              "value", "assignedFromExpression", "inheritsFrom", "isDefault",
              "isNamespace", "isOptional", "returnType" }
        ListKeys ==
            { "children", "logicFlow", "importedElements", "exportedElements", "parameters" }
    IN  [ k \in { q \in DOMAIN obj : ~(q \in ScalarKeys /\ obj[q].t = "undefined") } |->
            IF k \in ListKeys THEN [ j \in 1..Len(obj[k]) |-> Stringify(obj[k][j]) ]
            ELSE IF k = "signature" THEN Stringify(obj[k])
            ELSE obj[k] ]

\* const rootNodes = processNode(sourceFile);
\* return JSON.stringify(rootNodes?.children, null, 2)
parseTypeScriptApiAndStructure(sourceFile) ==
    LET rootNodes == processNode(sourceFile)
    IN  [ j \in 1..Len(rootNodes.children) |-> Stringify(rootNodes.children[j]) ]

(* the statements the source files of the model are made of *)

\* function f(x) { if (x) { return 1; } else { return 2; } }
FunctionIfElse ==
    FunctionLike("FunctionDeclaration",
        [name |-> Identifier("f"), modifiers |-> << >>, parameters |-> <<Parameter("x")>>,
         body |-> Block(<< IfElseStatement(Identifier("x"),
                               Block(<<ReturnStatement(NumericLiteral("1"))>>),
                               Block(<<ReturnStatement(NumericLiteral("2"))>>)) >>)])

\* import { Foo, Bar as Baz } from "./mod"
ImportNamed ==
    ImportDeclaration(
        ImportClause([namedBindings |-> NamedBindings("NamedImports",
            << Specifier("ImportSpecifier", [name |-> Identifier("Foo")]),
               Specifier("ImportSpecifier", [name |-> Identifier("Baz"),
                                             propertyName |-> Identifier("Bar")]) >>)]),
        StringLiteral("./mod"))

\* export class C extends B implements I { private p = 1; constructor(q) { g(q); }
\* m(): void { return; } }
ClassFull ==
    ClassDeclaration("C", <<Token("ExportKeyword", <<"export">>)>>,
        << HeritageClause("extends ", <<"B">>), HeritageClause("implements ", <<"I">>) >>,
        << Property("PropertyDeclaration",
               [name |-> Identifier("p"),
                modifiers |-> <<Token("PrivateKeyword", <<"private">>)>>,
                initializer |-> NumericLiteral("1")]),
           FunctionLike("Constructor",
               [modifiers |-> << >>, parameters |-> <<Parameter("q")>>,
                body |-> Block(<< ExpressionStatement(
                                     CallExpression(Identifier("g"), <<Identifier("q")>>)) >>)]),
           FunctionLike("MethodDeclaration",
               [name |-> Identifier("m"), modifiers |-> << >>, parameters |-> << >>,
                type |-> Token("VoidKeyword", <<"void">>),
                body |-> Block(<<[kind |-> "ReturnStatement", src |-> <<"return;">>, kids |-> << >>]>>)]) >>)

\* if (flag) { function g() { while (c) { r = h(); } const n = 0; } }
TopLevelIf ==
    IfStatement(Identifier("flag"),
        Block(<< FunctionLike("FunctionDeclaration",
                    [name |-> Identifier("g"), modifiers |-> << >>, parameters |-> << >>,
                     body |-> Block(
                         << WhileStatement(Identifier("c"),
                                Block(<< ExpressionStatement(
                                            Assignment(Identifier("r"),
                                                CallExpression(Identifier("h"), << >>))) >>)),
                            VariableStatement(<< >>,
                                << VariableDeclaration(
                                       [name |-> Identifier("n"),
                                        initializer |-> NumericLiteral("0")]) >>) >>)]) >>))

Statements ==
    { FunctionIfElse, ImportNamed, ClassFull, TopLevelIf,
      \* import Def, * as ns from "./lib"
      ImportDeclaration(
          ImportClause([name |-> Identifier("Def"), namedBindings |-> NamespaceImport("ns")]),
          StringLiteral("./lib")),
      \* interface I { a: string }
      InterfaceDeclaration("I", << >>,
          << Property("PropertySignature",
                 [name |-> Identifier("a"), modifiers |-> << >>,
                  type |-> Token("StringKeyword", <<"string">>)]) >>),
      \* enum E { A, B = 2 }
      EnumDeclaration("E", << >>,
          << EnumMember([name |-> Identifier("A")]),
             EnumMember([name |-> Identifier("B"), initializer |-> NumericLiteral("2")]) >>),
      \* export const k = "v", h = () => { return k; };
      VariableStatement(<<Token("ExportKeyword", <<"export">>)>>,
          << VariableDeclaration([name |-> Identifier("k"), initializer |-> StringLiteral("v")]),
             VariableDeclaration(
                 [name |-> Identifier("h"),
                  initializer |-> FunctionLike("ArrowFunction",
                      [modifiers |-> << >>, parameters |-> << >>,
                       body |-> Block(<<ReturnStatement(Identifier("k"))>>)])]) >>),
      \* export { Foo as Bar } from "./mod"
      ExportDeclaration(
          [isTypeOnly |-> FALSE,
           exportClause |-> NamedBindings("NamedExports",
               << Specifier("ExportSpecifier", [name |-> Identifier("Bar"),
                                                propertyName |-> Identifier("Foo")]) >>),
           moduleSpecifier |-> StringLiteral("./mod")]),
      \* export type * from "./m"
      ExportDeclaration([isTypeOnly |-> TRUE, moduleSpecifier |-> StringLiteral("./m")]),
      \* g(1);
      ExpressionStatement(CallExpression(Identifier("g"), <<NumericLiteral("1")>>)),
      \* type T = string
      TypeAliasDeclaration("T", << >>, Token("StringKeyword", <<"string">>)) }

\* generateDoc: ASTstring = parseTypeScriptApiAndStructure(ast as ts.SourceFile)
Summarize ==
    /\ spc = "parsed"
    /\ digest' = parseTypeScriptApiAndStructure(source)
    /\ spc' = "summarized"
    /\ UNCHANGED source
    /\ UNCHANGED repoVars
    /\ UNCHANGED <<rpc, data, notes, streams, summary, unit>>
    /\ UNCHANGED reqVars
    /\ UNCHANGED hVars

(* ------------------------------------------------------------------ *)
(* The route analyze-repo-detailed                                     *)
(* ------------------------------------------------------------------ *)

\* the longest tree the GitHub API answers with
MaxTreeItems == 2

\* POST, from request.json() to the await of generateObject: the 400 and 404
\* answers, the three fetches, and the call of analyzeContents, which is not
\* awaited and stands at its first fetch when POST goes on
AnalyzeFetch ==
    /\ hpc = "analyze"
    /\ IF req.host # "github.com"
       THEN /\ resp' = [kind |-> "json", status |-> 400,
                        body |-> [error |-> "Invalid GitHub URL"]]
            /\ hpc' = "responded"
            /\ UNCHANGED loc
       ELSE IF ~req.repoOk
       THEN /\ resp' = [kind |-> "json", status |-> 404,
                        body |-> [error |-> "Repository not found"]]
            /\ hpc' = "responded"
            /\ UNCHANGED loc
       ELSE /\ loc' = [contents |-> IF req.contentsOk THEN req.contents ELSE << >>,
                       readme |-> IF req.readmeOk THEN "readme" ELSE "",
                       fileTypes |-> << >>, totalFiles |-> 0,
                       analyzeContents |-> "branch", analysis |-> "null",
                       generateObject |-> "pending"]
            /\ hpc' = "generateObject"
            /\ UNCHANGED resp
    /\ UNCHANGED req
    /\ UNCHANGED repoVars
    /\ UNCHANGED <<rpc, data, notes, streams, summary, unit>>
    /\ UNCHANGED reqVars
    /\ UNCHANGED sumVars

\* item.path.split(".").pop()?.toLowerCase() || "no-ext"
Extension(path) ==
    LET last == IF path[Len(path)] = "." THEN "" ELSE path[Len(path)]
        lower == CASE last = "TS" -> "ts"
                   [] last = "Makefile" -> "makefile"
                   [] OTHER -> last
    IN  IF lower = "" THEN "no-ext" ELSE lower

\* analyzeContents resumed by the answer to one of its two fetches: the branch,
\* then the recursive tree, whose blobs it counts
AnalyzeContents ==
    /\ hpc \in {"generateObject", "responded"}
    /\ "analyzeContents" \in DOMAIN loc
    /\ loc.analyzeContents \in {"branch", "tree"}
    /\ LET tree == req.tree
           counted[k \in 0..Len(tree)] ==
               IF k = 0 THEN [totalFiles |-> loc.totalFiles, fileTypes |-> loc.fileTypes]
               ELSE IF tree[k].type = "blob"
               THEN LET ext == Extension(tree[k].path)
                        before == counted[k - 1].fileTypes
                        had == IF ext \in DOMAIN before THEN before[ext] ELSE 0
                    IN  [totalFiles |-> counted[k - 1].totalFiles + 1,
                         fileTypes |-> (ext :> (had + 1)) @@ before]
               ELSE counted[k - 1]
       IN  loc' = IF loc.analyzeContents = "branch"
                  THEN [loc EXCEPT !.analyzeContents =
                                       IF req.branchOk THEN "tree" ELSE "returned"]
                  ELSE IF ~req.treeOk
                  THEN [loc EXCEPT !.analyzeContents = "returned"]
                  ELSE [loc EXCEPT !.analyzeContents = "returned",
                                   !.totalFiles = counted[Len(tree)].totalFiles,
                                   !.fileTypes = counted[Len(tree)].fileTypes]
    /\ UNCHANGED <<req, resp, hpc>>
    /\ UNCHANGED repoVars
    /\ UNCHANGED <<rpc, data, notes, streams, summary, unit>>
    /\ UNCHANGED reqVars
    /\ UNCHANGED sumVars

AnalysisSettledRethrows ==
    /\ hpc = "generateObject"
    /\ \E object \in {"object", "rejected"} :
          /\ loc' = [loc EXCEPT !.analysis = IF object = "rejected" THEN @ ELSE object,
                                !.generateObject = object]
          /\ resp' = IF object = "rejected"
                     THEN [kind |-> "json", status |-> 500,
                           body |-> [error |-> "Failed to analyze repository"]]
                     ELSE [kind |-> "json", status |-> 200,
                           body |-> [name |-> req.repoData.name,
                                     fullName |-> req.repoData.full_name,
                                     description |-> req.repoData.description,
                                     language |-> req.repoData.language,
                                     stars |-> req.repoData.stargazers_count,
                                     forks |-> req.repoData.forks_count,
                                     size |-> <<req.repoData.size \div 1024, " MB">>,
                                     fileCount |-> loc.totalFiles,
                                     fileTypes |-> loc.fileTypes,
                                     readme |-> loc.readme,
                                     contents |-> loc.contents,
                                     analysis |-> object]]
    /\ hpc' = "responded"
    /\ UNCHANGED req
    /\ UNCHANGED repoVars
    /\ UNCHANGED <<rpc, data, notes, streams, summary, unit>>
    /\ UNCHANGED reqVars
    /\ UNCHANGED sumVars

\* POST resumed by generateObject: analysis is its object, or stays null when it
\* rejects; the result is built from what the variables hold at this moment
AnalysisSettled ==
    /\ hpc = "generateObject"
    /\ \E object \in {"object", "rejected"} :
          LET analysis == IF object = "rejected" THEN loc.analysis ELSE object
          IN  /\ loc' = [loc EXCEPT !.analysis = analysis, !.generateObject = object]
              /\ resp' = [kind |-> "json", status |-> 200,
                          body |-> [name |-> req.repoData.name,
                                    fullName |-> req.repoData.full_name,
                                    description |-> req.repoData.description,
                                    language |-> req.repoData.language,
                                    stars |-> req.repoData.stargazers_count,
                                    forks |-> req.repoData.forks_count,
                                    size |-> <<req.repoData.size \div 1024, " MB">>,
                                    fileCount |-> loc.totalFiles,
                                    fileTypes |-> loc.fileTypes,
                                    readme |-> loc.readme,
                                    contents |-> loc.contents,
                                    analysis |-> analysis]]
    /\ hpc' = "responded"
    /\ UNCHANGED req
    /\ UNCHANGED repoVars
    /\ UNCHANGED <<rpc, data, notes, streams, summary, unit>>
    /\ UNCHANGED reqVars
    /\ UNCHANGED sumVars

(* ------------------------------------------------------------------ *)
(* The route create-zip                                                *)
(* ------------------------------------------------------------------ *)

\* FormatDocumentation(documentation): a table of contents over the sorted keys,
\* then under each key FormatThinkingResponse of its value, which is the value
\* itself without "</think>" in it, else what follows the first "</think>",
\* trimmed; response.indexOf throws for a value that is no string. Strings are
\* sequences of pieces, a blank a piece of its own.
FormatDocumentation(documentation) ==
    LET KeyOrder == <<"a", "src/B", "undefined">>
        sortedKeys == SelectSeq(KeyOrder, LAMBDA k : k \in DOMAIN documentation)
        generateAnchor(filePath) == IF filePath = "src/B" THEN "src-b" ELSE filePath
        trim(s) ==
            LET kept == { k \in 1..Len(s) : s[k] # " " }
            IN  IF kept = {} THEN << >>
                ELSE LET lo == CHOOSE k \in kept : \A j \in kept : k <= j
                         hi == CHOOSE k \in kept : \A j \in kept : j <= k
                     IN  SubSeq(s, lo, hi)
        FormatThinkingResponse(response) ==
            LET at == { k \in 1..Len(response) : response[k] = "</think>" }
            IN  IF at = {} THEN response
                ELSE LET thinkIndex == CHOOSE k \in at : \A j \in at : k <= j
                     IN  trim(SubSeq(response, thinkIndex + 1, Len(response)))
        contents[k \in 0..Len(sortedKeys)] ==
            IF k = 0 THEN << >>
            ELSE contents[k - 1] \o <<"- [", sortedKeys[k], "](#",
                                      generateAnchor(sortedKeys[k]), ")\n">>
        body[k \in 0..Len(sortedKeys)] ==
            IF k = 0 THEN << >>
            ELSE body[k - 1] \o <<"### *", sortedKeys[k], "*\n">>
                     \o FormatThinkingResponse(documentation[sortedKeys[k]].v)
                     \o <<"\n\n---\n\n">>
    IN  IF \E k \in DOMAIN documentation : documentation[k].t # "string"
        THEN [thrown |-> TRUE, v |-> <<"TypeError">>]
        ELSE [thrown |-> FALSE,
              v |-> <<"# Project Documentation - ", "date", "\n\n",
                      "## Table of Contents\n\n">>
                    \o contents[Len(sortedKeys)] \o <<"\n---\n\n">>
                    \o body[Len(sortedKeys)]]

\* POST: the whole handler, whose catch answers 500 for whatever is thrown in it.
\* A file of the zip is its name and its text, both sequences of pieces.
CreateZip ==
    /\ hpc = "zip"
    /\ LET documentation == req.documentation
           repoInfo == req.repoInfo
           isArray == documentation.t = "array"
           \* for (const doc of documentation): the elements of an array, the
           \* characters of a string
           n == Len(documentation.v)
           main[k \in 0..n] ==
               IF k = 0 THEN << >>
               ELSE (<<documentation.v[k].path, ".md">> :> documentation.v[k].content.v)
                        @@ main[k - 1]
           first == IF isArray THEN main[n]
                    ELSE (<<"README.md">> :> documentation.v)
           \* { [doc.path]: doc.content }: both are undefined on a character,
           \* and the computed key of undefined is "undefined"
           fullDocumentation[k \in 0..n] ==
               IF k = 0 THEN << >>
               ELSE IF isArray
               THEN (documentation.v[k].path :> documentation.v[k].content)
                        @@ fullDocumentation[k - 1]
               ELSE ("undefined" :> JsUndefined) @@ fullDocumentation[k - 1]
           full == FormatDocumentation(fullDocumentation[n])
           isJs == repoInfo.language \in {"JavaScript", "TypeScript"}
           files == (<<"GETTING_STARTED.md">> :>
                        <<"# Getting Started with ", repoInfo.name,
                          IF isJs THEN "- package.json" ELSE "">>)
                    @@ (IF isJs
                        THEN (<<"package.json">> :> <<"{name: ", repoInfo.name, "}">>)
                        ELSE << >>)
                    @@ (<<"project-info.json">> :>
                           <<"{name: ", repoInfo.name, ", language: ",
                             repoInfo.language, "}">>)
                    @@ (<<"full_docs.md">> :> full.v)
                    @@ first
       IN  \* repoInfo.language of a body without repoInfo throws as well
           IF full.thrown \/ repoInfo.t # "object"
           THEN resp' = [kind |-> "json", status |-> 500,
                         body |-> [error |-> "Failed to create ZIP file"]]
           ELSE resp' = [kind |-> "zip", status |-> 200,
                         body |-> [contentType |-> "application/zip",
                                   filename |-> <<repoInfo.name, "-docs.zip">>,
                                   files |-> files]]
    /\ hpc' = "responded"
    /\ UNCHANGED <<req, loc>>
    /\ UNCHANGED repoVars
    /\ UNCHANGED <<rpc, data, notes, streams, summary, unit>>
    /\ UNCHANGED reqVars
    /\ UNCHANGED sumVars

(* ------------------------------------------------------------------ *)
(* The routes generate-docs-stream and generate-readme                 *)
(* ------------------------------------------------------------------ *)

\* the first argument both routes give getRepositoryData, with
\* splitUrl = repoUrl.split("://"): the template literal
\* splitUrl[0] "://" accessToken "@" splitUrl[1], in which a value that is
\* undefined reads "undefined". A URL is the sequence of its pieces.
CredentialUrl(repoUrl, accessToken) ==
    LET at == { k \in 1..Len(repoUrl) : repoUrl[k] = "://" }
        cut == CHOOSE k \in at : \A j \in at : k <= j
        splitUrl == IF at = {} THEN <<repoUrl>>
                    ELSE <<SubSeq(repoUrl, 1, cut - 1), SubSeq(repoUrl, cut + 1, Len(repoUrl))>>
        text(value) == IF value.t = "undefined" THEN <<"undefined">> ELSE value.v
        second == IF Len(splitUrl) < 2 THEN <<"undefined">> ELSE splitUrl[2]
    IN  splitUrl[1] \o <<"://">> \o text(accessToken) \o <<"@">> \o second

\* POST of generate-docs-stream: the whole handler, up to the response that
\* streams what the model makes of the prompt
GenerateDocsStream ==
    /\ hpc = "docs-stream"
    /\ LET accessToken == req.accessToken
           readme == req.repoData.readme
           \* if (accessToken): neither undefined nor the empty string
           headers == IF accessToken.t = "string" /\ accessToken.v # << >>
                      THEN {[name |-> "Authorization", value |-> <<"Bearer ">> \o accessToken.v]}
                      ELSE {}
           cloned == readme.length < 400
           calls == IF cloned
                    THEN << [url |-> CredentialUrl(req.repoUrl, accessToken),
                             headers |-> headers] >>
                    ELSE << >>
           \* repoContent?.structure and fullText, which starts as ""
           structureText == IF cloned THEN req.repository.structure ELSE <<"undefined">>
           fullText == IF cloned THEN req.repository.files ELSE << >>
           prompt == <<"Generate comprehensive documentation for this GitHub repository:",
                       req.repoData.name>>
                     \o (IF readme.length # 0 /\ readme.length > 400
                         THEN <<"Existing README:\n">> \o readme.text
                         ELSE <<"Repository structure:\n">> \o structureText
                              \o <<"Repository files content:\n">> \o fullText)
       IN  /\ loc' = [calls |-> calls]
           /\ resp' = IF cloned /\ req.clone = "throws"
                      THEN [kind |-> "json", status |-> 500, body |-> [prompt |-> << >>]]
                      ELSE [kind |-> "stream", status |-> 200, body |-> [prompt |-> prompt]]
    /\ hpc' = "responded"
    /\ UNCHANGED req
    /\ UNCHANGED repoVars
    /\ UNCHANGED <<rpc, data, notes, streams, summary, unit>>
    /\ UNCHANGED reqVars
    /\ UNCHANGED sumVars

\* POST of generate-readme: the whole handler, which always clones
GenerateReadme ==
    /\ hpc = "readme"
    /\ LET accessToken == req.accessToken
           headers == IF accessToken.t = "string" /\ accessToken.v # << >>
                      THEN {[name |-> "Authorization", value |-> <<"Bearer ">> \o accessToken.v]}
                      ELSE {}
           prompt == <<"Create a README.md file for this repository:",
                       "Repository structure:\n">> \o req.repository.structure
                     \o <<"Repository files content:\n">> \o req.repository.files
       IN  /\ loc' = [calls |-> << [url |-> CredentialUrl(req.repoUrl, accessToken),
                                    headers |-> headers] >>]
           /\ resp' = IF req.clone = "throws"
                      THEN [kind |-> "json", status |-> 500, body |-> [prompt |-> << >>]]
                      ELSE [kind |-> "stream", status |-> 200, body |-> [prompt |-> prompt]]
    /\ hpc' = "responded"
    /\ UNCHANGED req
    /\ UNCHANGED repoVars
    /\ UNCHANGED <<rpc, data, notes, streams, summary, unit>>
    /\ UNCHANGED reqVars
    /\ UNCHANGED sumVars

(* ------------------------------------------------------------------ *)
(* The page: what it keeps of the data stream                          *)
(* ------------------------------------------------------------------ *)

\* the longest data stream a generation sends
MaxDataItems == 3

\* useChat appends what one read of the response carries to data, one item or
\* several, and the component renders once for it
DataArrives ==
    /\ hpc = "page"
    /\ loc.seen = Len(loc.generationData)
    /\ \E n \in 1..(Len(req.stream) - Len(loc.generationData)) :
          loc' = [loc EXCEPT !.generationData =
                                 SubSeq(req.stream, 1, Len(loc.generationData) + n)]
    /\ UNCHANGED <<req, resp, hpc>>
    /\ UNCHANGED repoVars
    /\ UNCHANGED <<rpc, data, notes, streams, summary, unit>>
    /\ UNCHANGED reqVars
    /\ UNCHANGED sumVars

\* the effect on [generationData], run after the render: the last item, when it
\* is a chunk, is added to the text pathMap holds for its path
AccumulateEffect ==
    /\ hpc = "page"
    /\ loc.seen # Len(loc.generationData)
    /\ LET item == loc.generationData[Len(loc.generationData)]
           had == IF item.path \in DOMAIN loc.pathMap THEN loc.pathMap[item.path] ELSE << >>
       IN  loc' = [loc EXCEPT !.seen = Len(loc.generationData),
                              !.pathMap = IF item.type = "chunk"
                                          THEN (item.path :> (had \o <<item.text>>)) @@ @
                                          ELSE @]
    /\ UNCHANGED <<req, resp, hpc>>
    /\ UNCHANGED repoVars
    /\ UNCHANGED <<rpc, data, notes, streams, summary, unit>>
    /\ UNCHANGED reqVars
    /\ UNCHANGED sumVars

(* ------------------------------------------------------------------ *)
(* Specifications                                                      *)
(* ------------------------------------------------------------------ *)

\* the blobs of a repository the filter lets through
Eligible(u) == { p \in DOMAIN Tree(u) : Tree(u)[p] = "blob" /\ ~SkippedByFilter(p) }

\* nothing walked, nothing returned
BlankResult ==
    /\ fileContents = [i \in Inv |-> << >>]
    /\ structure = [i \in Inv |-> << >>]
    /\ sst = [i \in Inv |-> << >>]
    /\ pending = [i \in Inv |-> NoOutcome]
    /\ outcome = [i \in Inv |-> NoOutcome]
    /\ log = [i \in Inv |-> << >>]

\* no source file handed to the summarizer
\* no request to the other routes, and the page not open
NoHandler ==
    /\ req = << >>
    /\ loc = << >>
    /\ resp = [kind |-> "none"]
    /\ hpc = "off"

NoSource ==
    /\ source = SourceFile(<< >>)
    /\ digest = << >>
    /\ spc = "off"

\* no request body with a token; lib/ai/model.ts evaluated with the variables
\* of Ollama
PlainRequest ==
    /\ NoSource
    /\ NoHandler
    /\ call = [i \in Inv |-> DefaultCall]
    /\ token = [i \in Inv |-> NoToken]
    /\ env = [ n \in EnvNames |-> IF n \in {"OLLAMA_BASE_URL", "OLLAMA_MODEL"}
                                   THEN "value" ELSE Undefined ]
    /\ aimodel = EvaluateModel(env)

\* nothing written to any data stream
BlankRoute ==
    /\ data = [i \in Inv |-> << >>]
    /\ notes = [i \in Inv |-> {}]
    /\ streams = [i \in Inv |-> << >>]
    /\ summary = [i \in Inv |-> << >>]
    /\ unit = [i \in Inv |-> << >>]

\* one request to the route, for one of four repositories, at most one of whose
\* eligible blobs cannot be read
Init ==
    /\ BlankResult
    /\ BlankRoute
    /\ PlainRequest
    /\ walked = [i \in Inv |-> [extraction |-> NoRef, structure |-> NoRef]]
    /\ dir = [i \in Inv |-> << >>]
    /\ fs = << >>
    /\ wst = [i \in Inv |-> << >>]
    /\ \E u \in {"small", "lib", "nofiles", "nohead"} :
          /\ url = [i \in Inv |-> IF i = 1 THEN u ELSE "none"]
          /\ \E bad \in SUBSET Eligible(u) :
                /\ Cardinality(bad) <= 1
                /\ unreadable = [i \in Inv |-> IF i = 1 THEN bad ELSE {}]
    /\ pc = [i \in Inv |-> "off"]
    /\ rpc = [i \in Inv |-> IF i = 1 THEN "idle" ELSE "off"]

WalkStep(i) ==
    \/ \E p \in DOMAIN wst[i] : WalkType(i, p)
    \/ \E p \in DOMAIN wst[i] : WalkContent(i, p)
    \/ WalkTreeReturn(i)

RepoStep(i) ==
    \/ Mkdtemp(i)
    \/ CloneOk(i)
    \/ CloneFail(i)
    \/ ListFiles(i)
    \/ WalkStep(i)
    \/ \E p \in DOMAIN sst[i] : StructType(i, p)
    \/ StructureReturn(i)
    \/ CleanupOk(i)
    \/ CleanupFail(i)

RouteStep(i) ==
    \/ RouteStart(i)
    \/ GenerateDoc(i)
    \/ \E p \in DOMAIN streams[i] : StreamChunk(i, p)
    \/ \E p \in DOMAIN streams[i] : StreamEnd(i, p)
    \/ \E p \in DOMAIN streams[i] : StreamError(i, p)
    \/ RouteDone(i)
    \/ CloseResponse(i)

Spec == Init /\ [][\E i \in Inv : RepoStep(i) \/ RouteStep(i)]_vars

\* walkTree alone on the clone of repository u, the blobs of bad unreadable
InitWalkOn(u, bad) ==
    /\ BlankResult
    /\ BlankRoute
    /\ PlainRequest
    /\ walked = [i \in Inv |-> [extraction |-> IF i = 1 THEN call[i].branch ELSE NoRef,
                                 structure |-> NoRef]]
    /\ url = [i \in Inv |-> IF i = 1 THEN u ELSE "none"]
    /\ unreadable = [i \in Inv |-> IF i = 1 THEN bad ELSE {}]
    /\ fs = [ x \in {<<"repo-clone-", 1>>} |-> u ]
    /\ dir = [i \in Inv |-> IF i = 1 THEN <<"repo-clone-", 1>> ELSE << >>]
    /\ wst = [i \in Inv |-> IF i = 1 THEN WalkStart(u) ELSE << >>]
    /\ pc = [i \in Inv |-> IF i = 1 THEN "walkTree" ELSE "off"]
    /\ rpc = [i \in Inv |-> "off"]

\* walkTree on a repository with entries for every rule of the filter
SpecWalk ==
    /\ \E u \in {"policy", "small", "lib"} :
           \E bad \in SUBSET Eligible(u) : Cardinality(bad) <= 1 /\ InitWalkOn(u, bad)
    /\ [][\E i \in Inv : WalkStep(i)]_vars

\* walkTree on a repository with more eligible blobs than the size test lets in
SpecCap == InitWalkOn("flat", {}) /\ [][\E i \in Inv : WalkStep(i)]_vars

\* two concurrent invocations of getRepositoryData
InitConc ==
    /\ BlankResult
    /\ BlankRoute
    /\ PlainRequest
    /\ walked = [i \in Inv |-> [extraction |-> NoRef, structure |-> NoRef]]
    /\ url \in [Inv -> {"one", "two", "dirs"}]
    /\ unreadable = [i \in Inv |-> {}]
    /\ dir = [i \in Inv |-> << >>]
    /\ fs = << >>
    /\ wst = [i \in Inv |-> << >>]
    /\ pc = [i \in Inv |-> "mkdtemp"]
    /\ rpc = [i \in Inv |-> "off"]

SpecConc == InitConc /\ [][\E i \in Inv : RepoStep(i)]_vars

\* one first request to the route, under every setting of the four variables
\* lib/ai/model.ts reads, with or without an accessToken in its body, for a
\* public or a private repository
InitRequest ==
    /\ BlankResult
    /\ BlankRoute
    /\ NoSource
    /\ NoHandler
    /\ env \in [EnvNames -> EnvValues]
    /\ aimodel = [kind |-> "unloaded", message |-> "", provider |-> "", model |-> << >>]
    /\ token \in { [i \in Inv |-> IF i = 1 THEN t ELSE NoToken] : t \in {NoToken, RepoToken} }
    /\ call = [i \in Inv |-> DefaultCall]
    /\ walked = [i \in Inv |-> [extraction |-> NoRef, structure |-> NoRef]]
    /\ url \in { [i \in Inv |-> IF i = 1 THEN u ELSE "none"] : u \in {"one", "private"} }
    /\ unreadable = [i \in Inv |-> {}]
    /\ dir = [i \in Inv |-> << >>]
    /\ fs = << >>
    /\ wst = [i \in Inv |-> << >>]
    /\ pc = [i \in Inv |-> "off"]
    /\ rpc = [i \in Inv |-> IF i = 1 THEN "import" ELSE "off"]

SpecRequest == InitRequest /\ [][\E i \in Inv : LoadModel(i) \/ RepoStep(i) \/ RouteStep(i)]_vars

\* parseTypeScriptApiAndStructure applied to one source file
InitSummary ==
    /\ BlankResult
    /\ BlankRoute
    /\ call = [i \in Inv |-> DefaultCall]
    /\ token = [i \in Inv |-> NoToken]
    /\ env = [ n \in EnvNames |-> "value" ]
    /\ aimodel = EvaluateModel(env)
    /\ walked = [i \in Inv |-> [extraction |-> NoRef, structure |-> NoRef]]
    /\ url = [i \in Inv |-> "none"]
    /\ unreadable = [i \in Inv |-> {}]
    /\ dir = [i \in Inv |-> << >>]
    /\ fs = << >>
    /\ wst = [i \in Inv |-> << >>]
    /\ pc = [i \in Inv |-> "off"]
    /\ rpc = [i \in Inv |-> "off"]
    /\ source \in { SourceFile(s) :
                     s \in UNION { [1..n -> Statements] : n \in 0..MaxStatements } }
    /\ digest = << >>
    /\ spc = "parsed"
    /\ NoHandler

SpecSummary == InitSummary /\ [][Summarize]_vars

\* the longest documentation the page posts to create-zip
MaxDocs == 2

\* one request to one of the routes analyze-repo-detailed, create-zip,
\* generate-docs-stream and generate-readme, or the page receiving the data
\* stream of one generation
InitHandlers ==
    /\ BlankResult
    /\ BlankRoute
    /\ NoSource
    /\ call = [i \in Inv |-> DefaultCall]
    /\ token = [i \in Inv |-> NoToken]
    /\ env = [ n \in EnvNames |-> "value" ]
    /\ aimodel = EvaluateModel(env)
    /\ walked = [i \in Inv |-> [extraction |-> NoRef, structure |-> NoRef]]
    /\ url = [i \in Inv |-> "none"]
    /\ unreadable = [i \in Inv |-> {}]
    /\ dir = [i \in Inv |-> << >>]
    /\ fs = << >>
    /\ wst = [i \in Inv |-> << >>]
    /\ pc = [i \in Inv |-> "off"]
    /\ rpc = [i \in Inv |-> "off"]
    /\ resp = [kind |-> "none"]
    /\ \/ /\ hpc = "analyze"
          /\ loc = << >>
          /\ \E host \in {"github.com", "example.com"} :
             \E ok \in [{"repo", "contents", "readme", "branch", "tree"} -> BOOLEAN] :
             \E tree \in UNION { [1..n ->
                                    { [path |-> <<"src/a", ".", "ts">>, type |-> "blob"],
                                      [path |-> <<"B", ".", "TS">>, type |-> "blob"],
                                      [path |-> <<"Makefile">>, type |-> "blob"],
                                      [path |-> <<"src">>, type |-> "tree"] }] :
                                 n \in 0..MaxTreeItems } :
                req = [host |-> host, repoOk |-> ok["repo"], contentsOk |-> ok["contents"],
                       readmeOk |-> ok["readme"], branchOk |-> ok["branch"],
                       treeOk |-> ok["tree"], tree |-> tree, contents |-> <<"src", "README.md">>,
                       repoData |-> [name |-> "r", full_name |-> "o/r", description |-> "d",
                                     language |-> "TypeScript", stargazers_count |-> 1,
                                     forks_count |-> 0, size |-> 2048]]
       \/ /\ hpc = "zip"
          /\ loc = << >>
          /\ \E repoInfo \in { [t |-> "object", name |-> "r", language |-> "TypeScript"],
                               [t |-> "object", name |-> "r", language |-> "Go"],
                               [t |-> "undefined", name |-> "", language |-> ""] } :
                \/ \E s \in UNION { [1..n -> {"a", "b"}] : n \in 0..MaxDocs } :
                      req = [documentation |-> [t |-> "string", v |-> s],
                             repoInfo |-> repoInfo]
                \/ \E d \in UNION { [1..n ->
                          { [path |-> "a", content |-> JsString(<<"text">>)],
                            [path |-> "a", content |->
                                JsString(<<"thought", "</think>", " ", "text", " ">>)],
                            [path |-> "src/B", content |-> JsString(<<"more">>)] }] :
                          n \in 0..MaxDocs } :
                      req = [documentation |-> [t |-> "array", v |-> d],
                             repoInfo |-> repoInfo]
       \/ /\ hpc \in {"docs-stream", "readme"}
          /\ loc = [calls |-> << >>]
          /\ \E accessToken \in {JsUndefined, JsString(<< >>), JsString(<<"ghp_token">>)} :
             \E length \in {0, 399, 400, 401} :
             \E clone \in {"ok", "throws"} :
                req = [route |-> hpc, repoUrl |-> <<"https", "://", "github.com/o/r">>,
                       accessToken |-> accessToken,
                       repoData |-> [name |-> "r",
                                     readme |-> [length |-> length,
                                                 text |-> IF length = 0 THEN << >>
                                                          ELSE <<"README">>]],
                       clone |-> clone,
                       repository |-> [structure |-> <<"listing">>, files |-> <<"contents">>]]
       \/ /\ hpc = "page"
          /\ \E stream \in UNION { [1..n ->
                                      { [type |-> "chunk", path |-> "a.ts", text |-> "x"],
                                        [type |-> "chunk", path |-> "a.ts", text |-> "y"],
                                        [type |-> "chunk", path |-> "b.ts", text |-> "z"],
                                        [type |-> "info", path |-> "a.ts", text |-> "done"] }] :
                                   n \in 0..MaxDataItems } :
                req = [stream |-> stream]
          /\ loc = [generationData |-> << >>, pathMap |-> << >>, seen |-> 0]

SpecHandlers ==
    /\ InitHandlers
    /\ [][\/ AnalyzeFetch
          \/ AnalyzeContents
          \/ AnalysisSettled
          \/ CreateZip
          \/ GenerateDocsStream
          \/ GenerateReadme
          \/ DataArrives
          \/ AccumulateEffect]_vars


(* ------------------------------------------------------------------ *)
(* Properties                                                          *)
(* ------------------------------------------------------------------ *)

CloneFailed(i) == /\ outcome[i].kind = "throw"
                  /\ outcome[i].message[2] \in CloneErrors

RefFailed(i) == /\ outcome[i].kind = "throw"
                /\ outcome[i].message[2] \in
                      {"Could not find HEAD.", "Could not find commit for branch: HEAD"}

CleanupLogged(i) ==
    \E k \in 1..Len(log[i]) : log[i][k] = "Error cleaning up temporary directory:"

\* C1: after walkTree has finished, the extracted-file map holds at most 10
\* entries, whatever the number of blobs that pass the filter.
C1_AtMostTenFiles ==
    \A i \in Inv : pc[i] = "structure" => Cardinality(DOMAIN fileContents[i]) <= 10

\* the lines of a listing, without their line ends
RECURSIVE SplitLines(_)
SplitLines(s) ==
    IF s = << >> THEN << >>
    ELSE IF \E k \in 1..Len(s) : s[k] = "\n"
    THEN LET k == CHOOSE j \in 1..Len(s) : s[j] = "\n" /\ \A h \in 1..(j - 1) : s[h] # "\n"
         IN  <<SubSeq(s, 1, k - 1)>> \o SplitLines(SubSeq(s, k + 1, Len(s)))
    ELSE <<s>>

\* a line without its indentation
RECURSIVE StripIndent(_)
StripIndent(line) ==
    IF line # << >> /\ Head(line) = " " THEN StripIndent(Tail(line)) ELSE line

\* the number of lines of a listing that name path p with an annotation
LinesNaming(listing, p, annotation) ==
    LET ls == SplitLines(listing)
    IN  Cardinality({ k \in 1..Len(ls) : StripIndent(ls[k]) = <<"-", " ">> \o p \o <<annotation>> })

C3_DirectoryGoneOnExit ==
    \A i \in Inv : pc[i] = "done" => dir[i] \notin DOMAIN fs

\* C3 amended: on every exit path the removal of the temporary directory has
\* been attempted when getRepositoryData returns or throws: the directory is gone
\* unless the removal itself failed, and that failure is logged.
C3_DirectoryGoneUnlessRmFailed ==
    \A i \in Inv : pc[i] = "done" => (dir[i] \notin DOMAIN fs \/ CleanupLogged(i))

\* a failed clone after which the directory is absent
C3_Witness ==
    \E i \in Inv :
        /\ pc[i] = "done"
        /\ CloneFailed(i)
        /\ dir[i] \in TmpNames
        /\ dir[i] \notin DOMAIN fs

\* C4: a failing read of one file's content does not abort the walk: the path is
\* left out of the extracted-file map, the other eligible files are extracted and
\* getRepositoryData returns a result.
C4_ReadFailureSkipsFile ==
    \A i \in Inv :
        (pc[i] = "done" /\ wst[i] # << >> /\ unreadable[i] # {}) =>
            /\ outcome[i].kind = "return"
            /\ DOMAIN fileContents[i] = Eligible(url[i]) \ unreadable[i]

\* C5: a clone failure is reported as a RepositoryFetchError carrying the upstream
\* message, an empty or unresolvable branch reference as a BranchResolutionError.
C5_ErrorKinds ==
    \A i \in Inv :
        /\ CloneFailed(i) => outcome[i].class = "RepositoryFetchError"
        /\ RefFailed(i) => outcome[i].class = "BranchResolutionError"

\* the path segments and the extensions C6 names
ExcludedSegments ==
    { <<"n","o","d","e","_","m","o","d","u","l","e","s">>, <<".","g","i","t">>,
      <<"d","i","s","t">>, <<"b","u","i","l","d">>, <<"c","o","v","e","r","a","g","e">>,
      <<"e","x","a","m","p","l","e","s">>, <<"e","x","a","m","p","l","e">>,
      <<"t","e","s","t","s">>, <<"t","e","s","t">> }

HasExcludedSegment(p) ==
    \E k \in 1..Len(Segments(p)) : Segments(p)[k] \in ExcludedSegments

WhitelistedExtensions ==
    { <<".","j","s">>, <<".","j","s","o","n">>, <<".","t","s">>, <<".","j","s","x">>,
      <<".","t","s","x">>, <<".","p","y">>, <<".","j","a","v","a">>, <<".","c","p","p">>,
      <<".","r","b">>, <<".","p","h","p">>, <<".","g","o">>, <<".","r","s">>,
      <<".","s","w","i","f","t">>, <<".","c","s">> }

\* C6: no path with one of the segments node_modules, .git, dist, build, coverage,
\* examples, example, tests, test, and no path whose extension is outside the
\* supported list, is ever stored in the extracted-file map.
C6_FilteredNeverStored ==
    \A i \in Inv :
        \A p \in DOMAIN fileContents[i] :
            /\ ~HasExcludedSegment(p)
            /\ Extname(p) \in WhitelistedExtensions

\* the walk of a tree with excluded paths has finished and has stored the others
C6_Witness ==
    \E i \in Inv :
        /\ pc[i] = "structure"
        /\ DOMAIN fileContents[i] # {}
        /\ \A s \in ExcludedSegments :
              \E p \in DOMAIN wst[i] :
                  /\ Tree(url[i])[p] = "blob"
                  /\ \E k \in 1..Len(Segments(p)) : Segments(p)[k] = s
        /\ \E p \in DOMAIN wst[i] :
              Tree(url[i])[p] = "blob" /\ Extname(p) \notin WhitelistedExtensions

\* C7: a failure of the removal is logged and not propagated: the outcome of
\* getRepositoryData is the completion of its try/catch, whether rm failed or not.
C7_CleanupFailureOnlyLogged ==
    \A i \in Inv :
        pc[i] = "done" =>
            /\ outcome[i] = pending[i]
            /\ outcome[i].kind \in {"return", "throw"}
            /\ dir[i] \in DOMAIN fs => CleanupLogged(i)

\* the removal failed after a successful walk and the result is returned
C7_Witness ==
    \E i \in Inv :
        /\ pc[i] = "done"
        /\ CleanupLogged(i)
        /\ dir[i] \in DOMAIN fs
        /\ outcome[i] = Returned

\* invocation i is cloning or walking
Busy(i) == pc[i] \in {"clone", "listFiles", "walkTree", "structure"}

\* C8: two concurrent invocations never hold the same temporary directory; while
\* an invocation clones or walks its directory exists and holds its own clone,
\* whatever the other invocation removes; every entry of an invocation's map
\* comes from its own repository.
C8_InvocationsIsolated ==
    /\ \A i, j \in Inv :
          (i # j /\ (Busy(i) \/ pc[i] = "finally") /\ (Busy(j) \/ pc[j] = "finally"))
              => dir[i] # dir[j]
    /\ \A j \in Inv :
          Busy(j) => /\ DirThere(j)
                     /\ pc[j] # "clone" => fs[dir[j]] = url[j]
    /\ \A i \in Inv :
          \A p \in DOMAIN fileContents[i] :
              /\ p \in DOMAIN Tree(url[i])
              /\ fileContents[i][p].content[3] = [repo |-> url[i], file |-> p]

\* one invocation has removed its directory while the other, on another
\* repository, is walking and has extracted a file
C8_Witness ==
    \E i, j \in Inv :
        /\ i # j
        /\ url[i] # url[j]
        /\ pc[i] = "done" /\ outcome[i] = Returned /\ ~CleanupLogged(i)
        /\ pc[j] = "walkTree"
        /\ DOMAIN fileContents[j] # {}
        /\ DOMAIN fileContents[i] # {}

\* C9: when the ingestion fails fatally (clone failure, branch resolution failure)
\* the data stream carries no chunk item and never the status done; once the
\* request is over it carries the status failed.
C9_FatalFailureNoDocs ==
    \A i \in Inv :
        (CloneFailed(i) \/ RefFailed(i)) =>
            /\ \A k \in 1..Len(data[i]) :
                  /\ data[i][k].type # "chunk"
                  /\ data[i][k].status # "done"
            /\ rpc[i] = "closed" =>
                  \E k \in 1..Len(data[i]) : data[i][k] = StatusItem("failed")

\* a request whose clone failed is over: initializing, then failed
C9_Witness ==
    \E i \in Inv :
        /\ rpc[i] = "closed"
        /\ CloneFailed(i)
        /\ data[i] = <<StatusItem("initializing"), StatusItem("failed")>>

\* C10: when summarizing a file fails, generateDoc feeds the raw content of that
\* file to the prompt and returns a stream for it and for every other extracted
\* file.
C10_SummaryFailureFallsBack ==
    \A i \in Inv :
        (/\ Consuming(i)
         /\ outcome[i].kind = "return"
         /\ \E p \in DOMAIN summary[i] : SummaryThrows(summary[i][p])) =>
            /\ DOMAIN streams[i] = DOMAIN fileContents[i]
            /\ \A p \in DOMAIN summary[i] :
                  SummaryThrows(summary[i][p]) => unit[i][p] = "raw"

\* C11: in every result getRepositoryData returns, each key of the extracted-file
\* map is the path of an entry of the structure listing of the same result, where
\* it is annotated (file).
C11_KeysListedAsFiles ==
    \A i \in Inv :
        outcome[i].kind = "return" =>
            \A p \in DOMAIN fileContents[i] :
                LinesNaming(structure[i], p, " (file)") >= 1

\* a result with two extracted files, one of them below a directory, both listed
C11_Witness ==
    \E i \in Inv :
        /\ outcome[i].kind = "return"
        /\ \E p, q \in DOMAIN fileContents[i] :
              /\ Len(Segments(p)) = 1 /\ Len(Segments(q)) = 2
              /\ LinesNaming(structure[i], p, " (file)") = 1
              /\ LinesNaming(structure[i], q, " (file)") = 1

\* the items of kind chunk and info the data stream carries for path q
Delivered(i, q) ==
    { data[i][k] : k \in { h \in 1..Len(data[i]) : data[i][h].path = q } }

\* C12: when the generation of one file is aborted or its text stream fails, the
\* generation of the other files goes on unaffected: a file whose text stream has
\* ended has delivered every one of its chunks and then its "done" item.
C12_OtherFilesUnaffected ==
    \A i \in Inv :
        \A q \in DOMAIN streams[i] :
            streams[i][q].state = "done" =>
                /\ InfoItem(q) \in Delivered(i, q)
                /\ \A k \in 1..streams[i][q].sent : ChunkItem(q, k) \in Delivered(i, q)

\* the two variables of a provider are set to a value
OllamaConfigured(e) == Truthy(e["OLLAMA_BASE_URL"]) /\ Truthy(e["OLLAMA_MODEL"])

GoogleConfigured(e) == Truthy(e["GOOGLE_API_KEY"]) /\ Truthy(e["GOOGLE_MODEL"])

\* C13: the AI model module initializes without error whenever the variables of
\* Ollama or the variables of Google are configured; the variables of Google
\* alone are enough.
C13_EitherProviderSuffices ==
    (aimodel.kind # "unloaded" /\ (OllamaConfigured(env) \/ GoogleConfigured(env)))
        => aimodel.kind = "loaded"

\* C14: a request to POST /api/generate-docs-core whose body carries an
\* accessToken clones with it: getRepositoryData is called with the token as the
\* credential of the URL or in an Authorization header.
C14_TokenUsedForClone ==
    \A i \in Inv :
        (token[i] # NoToken /\ pc[i] # "off") =>
            \/ call[i].credential = token[i]
            \/ <<"Authorization", token[i]>> \in call[i].headers

\* generateDoc has returned its Map to the route
GenerateDocReturned(i) ==
    /\ Consuming(i)
    /\ outcome[i].kind = "return"
    /\ \A p \in DOMAIN summary[i] : ~SummaryThrows(summary[i][p])

\* C15: generateDoc hands back one unit of work per extracted file: the keys of
\* the Map of streams it returns are the keys of the extracted-file map
\* getRepositoryData returned, and each key has one generation stream.
C15_OneStreamPerFile ==
    \A i \in Inv :
        GenerateDocReturned(i) =>
            /\ DOMAIN streams[i] = DOMAIN fileContents[i]
            /\ DOMAIN unit[i] = DOMAIN fileContents[i]
            /\ \A p \in DOMAIN streams[i] : streams[i][p].state \in {"open", "done", "failed"}

\* generateDoc has just returned the streams of two extracted files, none read yet
C15_Witness ==
    \E i \in Inv :
        /\ rpc[i] = "consuming"
        /\ Cardinality(DOMAIN fileContents[i]) = 2
        /\ DOMAIN streams[i] = DOMAIN fileContents[i]
        /\ \A p \in DOMAIN streams[i] : streams[i][p] = [sent |-> 0, state |-> "open"]

\* C16: the listing is produced in depth-first order, a directory before the
\* entries beneath it, and the order of its lines depends on the order of the
\* entries of the tree alone: two walks of the same tree give the same listing,
\* however the callbacks of sibling entries interleave.
C16_SameTreeSameListing ==
    \A i, j \in Inv :
        (outcome[i].kind = "return" /\ outcome[j].kind = "return" /\ url[i] = url[j])
            => structure[i] = structure[j]

\* the refs that name a commit symbolically
SymbolicRefs == {"HEAD", "main", "master"}

\* C20: after a successful clone getRepositoryData resolves the head reference of
\* the branch to a commit identifier and hands that identifier, not the symbolic
\* ref, to the extraction walk and to the structure walk.
C20_WalksGetCommitId ==
    \A i \in Inv :
        /\ walked[i].extraction # NoRef => walked[i].extraction \notin SymbolicRefs
        /\ walked[i].structure # NoRef => walked[i].structure \notin SymbolicRefs

\* the source file summarized holds the statement
SummaryOf(statement) ==
    /\ spc = "summarized"
    /\ \E k \in 1..Len(source.statements) : source.statements[k] = statement

\* the node lists a node of the type whose children list holds a ReturnStatement
\* with the value
BranchReturns(node, type, v) ==
    \E b \in 1..Len(node.children) :
        /\ node.children[b].type = <<type>>
        /\ \E j \in 1..Len(node.children[b].children) :
               /\ node.children[b].children[j].type = <<"ReturnStatement">>
               /\ node.children[b].children[j].value = JsString(<<v>>)

\* C17: a function whose body is if (x) { return 1; } else { return 2; } is
\* summarized with a logicFlow that holds an IfStatement node whose ThenBlock
\* holds, in its children, a ReturnStatement of value "1" and whose ElseBlock
\* holds a ReturnStatement of value "2".
C17_IfElseSummary ==
    SummaryOf(FunctionIfElse) =>
        \E f \in 1..Len(digest) :
            /\ digest[f].type = <<"Function">>
            /\ \E n \in 1..Len(digest[f].logicFlow) :
                   /\ digest[f].logicFlow[n].type = <<"IfStatement">>
                   /\ BranchReturns(digest[f].logicFlow[n], "ThenBlock", "1")
                   /\ BranchReturns(digest[f].logicFlow[n], "ElseBlock", "2")

FunctionLikeTypes == { <<"Function">>, <<"Method">>, <<"ArrowFunction">>, <<"Constructor">> }

ContainerTypes ==
    { <<"Module">>, <<"Class">>, <<"Interface">>, <<"Enum">>, <<"VariableDeclarationGroup">> }

\* the nodes processFunctionLogicNode gives a children list
LogicTypes ==
    { <<"IfStatement">>, <<"ThenBlock">>, <<"ElseBlock">>, <<"FunctionCall">>, <<"Block">>,
      <<"ForStatement">>, <<"WhileStatement">>, <<"SwitchStatement">>, <<"TryStatement">> }

\* type is prefix (SyntaxKind) for some syntax kind
Wraps(type, prefix) == Len(type) = 3 /\ type[1] = prefix /\ type[3] = ")"

\* logicFlow on function-like nodes only and children on container nodes only,
\* in the node and in every node below it
RECURSIVE ShapeClaimed(_)
ShapeClaimed(node) ==
    /\ Has(node, "logicFlow") =>
           /\ node.type \in FunctionLikeTypes
           /\ \A j \in 1..Len(node.logicFlow) : ShapeClaimed(node.logicFlow[j])
    /\ Has(node, "children") =>
           /\ node.type \in ContainerTypes
           /\ \A j \in 1..Len(node.children) : ShapeClaimed(node.children[j])

\* as ShapeClaimed, children also allowed on GenericContainer nodes and on the
\* logic nodes
RECURSIVE ShapeAmended(_)
ShapeAmended(node) ==
    /\ Has(node, "logicFlow") =>
           /\ node.type \in FunctionLikeTypes
           /\ \A j \in 1..Len(node.logicFlow) : ShapeAmended(node.logicFlow[j])
    /\ Has(node, "children") =>
           /\ \/ node.type \in ContainerTypes
              \/ Wraps(node.type, "GenericContainer (")
              \/ node.type \in LogicTypes
              \/ Wraps(node.type, "NestedLogic (")
           /\ \A j \in 1..Len(node.children) : ShapeAmended(node.children[j])

\* C19 as stated: in every tree the summarizer produces, a logicFlow list appears
\* only on Function, Method, ArrowFunction and Constructor nodes, and a children
\* list only on Module, Class, Interface, Enum and VariableDeclarationGroup nodes.
C19_ListsOnlyOnClaimedNodes ==
    spc = "summarized" => \A j \in 1..Len(digest) : ShapeClaimed(digest[j])

\* C19 amended: in every tree the summarizer produces, a logicFlow list appears
\* only on Function, Method, ArrowFunction and Constructor nodes, and a children
\* list only on Module, Class, Interface, Enum, VariableDeclarationGroup and
\* GenericContainer nodes and on the logic nodes of a logicFlow (IfStatement,
\* ThenBlock, ElseBlock, FunctionCall, Block, ForStatement, WhileStatement,
\* SwitchStatement, TryStatement, NestedLogic).
C19_ListsOnlyOnContainersAndLogicNodes ==
    spc = "summarized" => \A j \in 1..Len(digest) : ShapeAmended(digest[j])

\* the summary of if (flag) { function g() { while ... } } and of a class: a
\* GenericContainer with children, below it a function with a logicFlow whose
\* WhileStatement has children, and a Class with children
C19_Witness ==
    /\ SummaryOf(TopLevelIf)
    /\ SummaryOf(ClassFull)
    /\ \E j \in 1..Len(digest) :
           /\ Wraps(digest[j].type, "GenericContainer (")
           /\ Has(digest[j], "children")
           /\ LET fn == digest[j].children[1].children[1]
              IN  /\ fn.type = <<"Function">>
                  /\ Has(fn, "logicFlow")
                  /\ fn.logicFlow[1].type = <<"WhileStatement">>
                  /\ Has(fn.logicFlow[1], "children")
    /\ \E j \in 1..Len(digest) : digest[j].type = <<"Class">> /\ Has(digest[j], "children")

\* C23: in the data stream of the route the status initializing is the first
\* item; the chunk items of a path come before the "done" item of that path; the
\* status done comes after the "done" item of every path generateDoc returned
\* and after every chunk and info item.
C23_StreamOrder ==
    \A i \in Inv :
        LET d == data[i]
        IN  /\ Len(d) > 0 => d[1] = StatusItem("initializing")
            /\ \A a, b \in 1..Len(d) :
                  (d[a].type = "chunk" /\ d[b].type = "info" /\ d[a].path = d[b].path)
                      => a < b
            /\ \A e \in 1..Len(d) :
                  d[e] = StatusItem("done") =>
                      /\ \A p \in DOMAIN streams[i] :
                            \E b \in 1..(e - 1) : d[b] = InfoItem(p)
                      /\ \A b \in 1..Len(d) : d[b].type \in {"chunk", "info"} => b < e

\* the status done has been written after the chunks and the "done" items of two
\* paths
C23_Witness ==
    \E i \in Inv :
        /\ Cardinality(DOMAIN streams[i]) = 2
        /\ \A p \in DOMAIN streams[i] : streams[i][p].sent >= 1
        /\ data[i][Len(data[i])] = StatusItem("done")

\* the item is the status done or the status failed
Terminal(item) == item.type = "status" /\ item.status \in {"done", "failed"}

\* C24: one terminal status item (done or failed) is written per request, and no
\* chunk or info item is written after it: the terminal item, once written, is
\* the last item of the data stream, and a request whose execute has settled has
\* written one.
C24_OneTerminalThenSilence ==
    \A i \in Inv :
        /\ \A a \in 1..Len(data[i]) : Terminal(data[i][a]) => a = Len(data[i])
        /\ rpc[i] \in {"settled", "closed"} =>
               \E a \in 1..Len(data[i]) : Terminal(data[i][a])

\* C26: the test of the size of the map and the insertion behave as one atomic
\* step under every interleaving of the callbacks of sibling entries: the
\* extracted-file map never holds more entries than the callbacks store when they
\* run one after another, which is the number the size test lets in.
C26_CheckAndInsertAtomic ==
    \A i \in Inv : Cardinality(DOMAIN fileContents[i]) <= SizeLimit

\* the path is eligible by the rules as the claim lists them, each rule read as
\* a test for a part of the path
Chars(w) ==
    CASE w = "node_modules/" -> <<"n","o","d","e","_","m","o","d","u","l","e","s","/">>
      [] w = ".git" -> <<".","g","i","t">>
      [] w = "dist/" -> <<"d","i","s","t","/">>
      [] w = "build/" -> <<"b","u","i","l","d","/">>
      [] w = "coverage/" -> <<"c","o","v","e","r","a","g","e","/">>
      [] w = ".log" -> <<".","l","o","g">>
      [] w = ".env" -> <<".","e","n","v">>
      [] w = ".lock" -> <<".","l","o","c","k">>
      [] w = ".md" -> <<".","m","d">>
      [] w = ".min.js" -> <<".","m","i","n",".","j","s">>
      [] w = "package-lock.json" ->
             <<"p","a","c","k","a","g","e","-","l","o","c","k",".","j","s","o","n">>
      [] w = ".vscode" -> <<".","v","s","c","o","d","e">>
      [] w = ".editorconfig" -> <<".","e","d","i","t","o","r","c","o","n","f","i","g">>
      [] w = ".gitignore" -> <<".","g","i","t","i","g","n","o","r","e">>
      [] w = "license" -> <<"l","i","c","e","n","s","e">>
      [] w = "LICENSE" -> <<"L","I","C","E","N","S","E">>
      [] w = "tsconfig.json" -> <<"t","s","c","o","n","f","i","g",".","j","s","o","n">>
      [] w = ".dockerignore" -> <<".","d","o","c","k","e","r","i","g","n","o","r","e">>
      [] w = "tailwind.config.ts" ->
             <<"t","a","i","l","w","i","n","d",".","c","o","n","f","i","g",".","t","s">>
      [] w = "examples" -> <<"e","x","a","m","p","l","e","s">>
      [] w = "example" -> <<"e","x","a","m","p","l","e">>
      [] w = "tests" -> <<"t","e","s","t","s">>
      [] w = "test" -> <<"t","e","s","t">>

ListedRules ==
    { "node_modules/", ".git", "dist/", "build/", "coverage/", ".log", ".env", ".lock", ".md",
      ".min.js", "package-lock.json", ".vscode", ".editorconfig", ".gitignore", "license",
      "LICENSE", "tsconfig.json", ".dockerignore", "tailwind.config.ts", "examples", "example",
      "tests", "test" }

EligibleAsListed(p) ==
    /\ Extname(p) \in WhitelistedExtensions
    /\ \A w \in ListedRules : ~Includes(p, Chars(w))

\* C30: while the cap has not been reached walkTree stores every blob whose
\* extension is supported and whose path triggers none of the listed exclusion
\* rules: when the walk has finished below the cap, with every blob readable,
\* each such blob of the tree is a key of the extracted-file map.
C30_EligibleStored ==
    \A i \in Inv :
        (/\ pc[i] = "structure"
         /\ unreadable[i] = {}
         /\ Cardinality(DOMAIN fileContents[i]) < SizeLimit) =>
            \A p \in DOMAIN Tree(url[i]) :
                (Tree(url[i])[p] = "blob" /\ EligibleAsListed(p))
                    => p \in DOMAIN fileContents[i]

\* C21: when generateObject fails in analyze-repo-detailed the request still
\* succeeds: the response is the JSON result, status 200, with every field of
\* the repository filled in from what GitHub answered and analysis null.
C21_AnalysisFailureStillSucceeds ==
    (/\ hpc = "responded"
     /\ "generateObject" \in DOMAIN loc
     /\ loc.generateObject = "rejected")
    => /\ resp.kind = "json"
       /\ resp.status = 200
       /\ resp.body.analysis = "null"
       /\ resp.body.name = req.repoData.name
       /\ resp.body.fullName = req.repoData.full_name
       /\ resp.body.description = req.repoData.description
       /\ resp.body.language = req.repoData.language
       /\ resp.body.stars = req.repoData.stargazers_count
       /\ resp.body.forks = req.repoData.forks_count
       /\ resp.body.readme = (IF req.readmeOk THEN "readme" ELSE "")
       /\ resp.body.contents = (IF req.contentsOk THEN req.contents ELSE << >>)

C21_Witness ==
    /\ hpc = "responded"
    /\ "generateObject" \in DOMAIN loc
    /\ loc.generateObject = "rejected"
    /\ resp.status = 200
    /\ resp.body.analysis = "null"

\* C22: when the documentation posted to create-zip is a single string (and the
\* body carries the information of the repository) the handler adds the string as
\* README.md and answers with the zip archive, content type application/zip,
\* not with the 500 answer.
C22_StringDocumentationZipped ==
    (/\ hpc = "responded"
     /\ "documentation" \in DOMAIN req
     /\ req.documentation.t = "string"
     /\ req.repoInfo.t = "object")
    => /\ resp.kind = "zip"
       /\ resp.body.contentType = "application/zip"
       /\ <<"README.md">> \in DOMAIN resp.body.files
       /\ resp.body.files[<<"README.md">>] = req.documentation.v

\* C25: when the fetches of the repository, the contents, the branch and the tree
\* all succeed, the fileCount of the answer of analyze-repo-detailed is the number
\* of blobs of the fetched tree and its fileTypes the count of blobs of each
\* extension, however the steps of analyzeContents and of POST interleave.
C25_FileCountsOfFetchedTree ==
    (/\ hpc = "responded"
     /\ "analyzeContents" \in DOMAIN loc
     /\ resp.status = 200
     /\ req.contentsOk /\ req.branchOk /\ req.treeOk)
    => LET blobs == { k \in 1..Len(req.tree) : req.tree[k].type = "blob" }
           exts == { Extension(req.tree[k].path) : k \in blobs }
       IN  /\ resp.body.fileCount = Cardinality(blobs)
           /\ DOMAIN resp.body.fileTypes = exts
           /\ \A e \in exts :
                 resp.body.fileTypes[e] =
                     Cardinality({ k \in blobs : Extension(req.tree[k].path) = e })

\* C27: for every length of the README the prompt of generate-docs-stream holds
\* either the text of the README or the structure and the file contents of the
\* cloned repository; getRepositoryData is called exactly when the README is not
\* put in the prompt, and the prompt never reads an undefined structure.
C27_ReadmeOrCloneInPrompt ==
    (/\ hpc = "responded"
     /\ "route" \in DOMAIN req
     /\ req.route = "docs-stream"
     /\ resp.kind = "stream")
    => LET prompt == resp.body.prompt
           has(piece) == \E k \in 1..Len(prompt) : prompt[k] = piece
           embedded == has("Existing README:\n") /\ has("README")
           cloned == has("listing") /\ has("contents")
       IN  /\ embedded \/ cloned
           /\ (Len(loc.calls) = 1) <=> ~embedded
           /\ ~has("undefined")

\* C28: when the request to generate-docs-stream or generate-readme carries no
\* accessToken, the URL given to getRepositoryData is the repoUrl of the request
\* unchanged and no Authorization header is sent.
C28_NoTokenPlainUrl ==
    (/\ hpc = "responded"
     /\ "route" \in DOMAIN req
     /\ req.accessToken.t = "undefined" \/ req.accessToken.v = << >>)
    => \A k \in 1..Len(loc.calls) :
          /\ loc.calls[k].url = req.repoUrl
          /\ loc.calls[k].headers = {}

\* C29: once the effect has run for what arrived, the text pathMap holds for a
\* path is the chunks received for that path joined in their order, whatever
\* number of items was appended to the data between two runs of the effect.
C29_PathMapHoldsEveryChunk ==
    (/\ hpc = "page"
     /\ loc.seen = Len(loc.generationData))
    => \A path \in {"a.ts", "b.ts"} :
          LET chunks == SelectSeq(loc.generationData,
                                  LAMBDA x : x.type = "chunk" /\ x.path = path)
              held == IF path \in DOMAIN loc.pathMap THEN loc.pathMap[path] ELSE << >>
          IN  held = [k \in 1..Len(chunks) |-> chunks[k].text]

====
